---- MODULE Spec2Model ----
(***************************************************************************)
(* A model of the CyCore tutor's conversation orchestration: the guardrail *)
(* classifier (src/src/guards.py), the password game (src/src/game.py),    *)
(* the conversation store and its persistence hook (src/src/session.py,    *)
(* src/src/firebase_auth.py), the title generator (src/src/llm.py) and the *)
(* per-message turn handler and sidebar handlers of src/app.py.            *)
(*                                                                         *)
(* A text is a sequence of one-character strings, so that the character    *)
(* tests, the lower-casing, the substring tests and the word-boundary      *)
(* search are computed the way the code computes them.  A message keeps    *)
(* its text by its spelling; Chars gives the characters of a spelling.     *)
(***************************************************************************)
EXTENDS Integers, Sequences, FiniteSets, TLC

VARIABLES
    logged_in,                \* st.session_state.logged_in
    user_info,                \* the uid of st.session_state.user_info, or "none"
    convos,                   \* st.session_state.convos: ordered <<[id, name, history]>>
    active_id,                \* st.session_state.active_id
    renaming,                 \* st.session_state.renaming
    confirming_delete,        \* st.session_state.confirming_delete
    password_question_count,  \* st.session_state.password_question_count
    phishing_question_count,  \* st.session_state.phishing_question_count
    in_password_game,         \* st.session_state.in_password_game
    password_game_step,       \* st.session_state.password_game_step
    user_password,            \* st.session_state.user_password
    client,                   \* app.py's client: TRUE iff GEMINI_API_KEY was set
    store,                    \* the persisted documents: uid -> ordered <<[id, encrypted_data]>>
    next_uuid,                \* how many conversation ids uuid4 has handed out
    turns,                    \* how many chat inputs were handled (bounded by MaxTurns)
    ops,                      \* how many sidebar buttons were handled (bounded by MaxOps)
    last,                     \* what the last handler did (observation only)
    guard                     \* a call of the classifier: its inputs and verdict (SpecGuard)

vars == <<logged_in, user_info, convos, active_id, renaming, confirming_delete,
          password_question_count, phishing_question_count, in_password_game,
          password_game_step, user_password, client, store, next_uuid, turns, ops, last,
          guard>>

-----------------------------------------------------------------------------
(* Characters and Python's str methods on them (ASCII inputs).             *)

UpperLetters ==
    <<"A","B","C","D","E","F","G","H","I","J","K","L","M",
      "N","O","P","Q","R","S","T","U","V","W","X","Y","Z">>

LowerLetters ==
    <<"a","b","c","d","e","f","g","h","i","j","k","l","m",
      "n","o","p","q","r","s","t","u","v","w","x","y","z">>

Digits == {"0","1","2","3","4","5","6","7","8","9"}

Range(s) == { s[i] : i \in DOMAIN s }

UpperSet == Range(UpperLetters)

LowerSet == Range(LowerLetters)

IsUpperChar(c) == c \in UpperSet

IsLowerChar(c) == c \in LowerSet

IsDigitChar(c) == c \in Digits

\* \w of Python's re on ASCII text
IsWordChar(c) == IsUpperChar(c) \/ IsLowerChar(c) \/ IsDigitChar(c) \/ c = "_"

\* \s of Python's re, and what str.split() splits on
IsSpaceChar(c) == c \in {" ", "\n", "\t"}

LetterIndex(letters, c) == CHOOSE i \in DOMAIN letters : letters[i] = c

LowerChar(c) == IF IsUpperChar(c) THEN LowerLetters[LetterIndex(UpperLetters, c)] ELSE c

UpperChar(c) == IF IsLowerChar(c) THEN UpperLetters[LetterIndex(LowerLetters, c)] ELSE c

\* str.lower()
Lower(s) == [i \in DOMAIN s |-> LowerChar(s[i])]

\* str.upper()
Upper(s) == [i \in DOMAIN s |-> UpperChar(s[i])]

\* whether sub occurs in s starting at position p
OccursAt(sub, s, p) ==
    /\ p >= 1
    /\ p + Len(sub) - 1 <= Len(s)
    /\ SubSeq(s, p, p + Len(sub) - 1) = sub

\* Python's `sub in s`
Contains(sub, s) == \E p \in 1..(Len(s) - Len(sub) + 1) : OccursAt(sub, s, p)

\* str.startswith
StartsWith(s, pre) == OccursAt(pre, s, 1)

\* str.endswith
EndsWith(s, suf) == Len(suf) <= Len(s) /\ OccursAt(suf, s, Len(s) - Len(suf) + 1)

\* \b of Python's re before position p of s (p in 1..Len(s)+1): exactly one of
\* the characters on its two sides is a word character
WordBoundary(s, p) ==
    LET before == p > 1 /\ IsWordChar(s[p - 1])
        after  == p <= Len(s) /\ IsWordChar(s[p])
    IN  before # after

\* re.search(rf"\b{re.escape(k)}\b", q)
WordSearch(k, q) ==
    \E p \in 1..(Len(q) - Len(k) + 1) :
        /\ OccursAt(k, q, p)
        /\ WordBoundary(q, p)
        /\ WordBoundary(q, p + Len(k))

-----------------------------------------------------------------------------
(* src/src/guards.py                                                       *)

BANNED ==
    { <<"h","o","w"," ","t","o"," ","h","a","c","k">>,
      <<"c","r","a","c","k">>,
      <<"d","d","o","s">>,
      <<"p","a","y","l","o","a","d">>,
      <<"e","x","p","l","o","i","t">>,
      <<"r","a","t">>,
      <<"k","e","y","l","o","g","g","e","r">>,
      <<"b","y","p","a","s","s"," ","p","a","y","w","a","l","l">> }

Topics_awareness ==
    { <<"p","h","i","s","h","i","n","g">>,
      <<"p","h","i","s","h","i","n","g"," ","a","w","a","r","e","n","e","s","s">>,
      <<"s","o","c","i","a","l"," ","m","e","d","i","a"," ","s","a","f","e","t","y">>,
      <<"d","i","g","i","t","a","l"," ","f","o","o","t","p","r","i","n","t">>,
      <<"c","y","b","e","r"," ","h","y","g","i","e","n","e">>,
      <<"o","n","l","i","n","e"," ","p","r","i","v","a","c","y">>,
      <<"i","d","e","n","t","i","t","y"," ","t","h","e","f","t">>,
      <<"p","e","r","s","o","n","a","l"," ","d","a","t","a"," ","p","r","o","t","e","c","t","i","o","n">>,
      <<"s","a","f","e"," ","b","r","o","w","s","i","n","g">>,
      <<"f","a","k","e"," ","w","e","b","s","i","t","e","s">>,
      <<"d","e","e","p","f","a","k","e">>,
      <<"a","i"," ","s","c","a","m","s">>,
      <<"s","m","i","s","h","i","n","g">>,
      <<"v","i","s","h","i","n","g">>,
      <<"p","r","i","v","a","c","y">>,
      <<"b","r","e","a","c","h">>,
      <<"s","c","a","m">>,
      <<"m","a","l","w","a","r","e">>,
      <<"v","i","r","u","s">>,
      <<"r","a","n","s","o","m","w","a","r","e">>,
      <<"u","p","d","a","t","e">>,
      <<"p","a","t","c","h">>,
      <<"b","a","c","k","u","p">>,
      <<"e","n","c","r","y","p","t","i","o","n">>,
      <<"s","o","c","i","a","l"," ","e","n","g","i","n","e","e","r","i","n","g">>,
      <<"e","m","a","i","l"," ","s","e","c","u","r","i","t","y">>,
      <<"p","a","s","s","w","o","r","d"," ","m","a","n","a","g","e","r">>,
      <<"h","a","c","k","i","n","g"," ","p","r","e","v","e","n","t","i","o","n">> }

Topics_auth_access ==
    { <<"p","a","s","s","w","o","r","d">>,
      <<"p","a","s","s","p","h","r","a","s","e">>,
      <<"2","f","a">>,
      <<"t","w","o","-","f","a","c","t","o","r">>,
      <<"m","u","l","t","i","-","f","a","c","t","o","r">>,
      <<"m","f","a">>,
      <<"o","t","p">>,
      <<"a","u","t","h","e","n","t","i","c","a","t","o","r">>,
      <<"b","i","o","m","e","t","r","i","c"," ","a","u","t","h","e","n","t","i","c","a","t","i","o","n">>,
      <<"p","a","s","s","w","o","r","d","l","e","s","s"," ","l","o","g","i","n">>,
      <<"s","i","n","g","l","e"," ","s","i","g","n","-","o","n">>,
      <<"i","d","e","n","t","i","t","y"," ","a","n","d"," ","a","c","c","e","s","s"," ","m","a","n","a","g","e","m","e","n","t">>,
      <<"p","r","i","v","i","l","e","g","e","d"," ","a","c","c","e","s","s"," ","m","a","n","a","g","e","m","e","n","t">>,
      <<"i","a","m">>,
      <<"p","a","m">>,
      <<"a","c","c","o","u","n","t">>,
      <<"l","o","g","i","n">>,
      <<"s","i","g","n","-","i","n">> }

Topics_network_internet ==
    { <<"w","i","f","i">>,
      <<"r","o","u","t","e","r">>,
      <<"n","e","t","w","o","r","k">>,
      <<"v","p","n">>,
      <<"d","n","s"," ","s","e","c","u","r","i","t","y">>,
      <<"i","p"," ","s","p","o","o","f","i","n","g">>,
      <<"m","a","n","-","i","n","-","t","h","e","-","m","i","d","d","l","e"," ","a","t","t","a","c","k">>,
      <<"s","s","l">>,
      <<"t","l","s">>,
      <<"h","t","t","p","s">>,
      <<"s","e","c","u","r","e"," ","c","o","n","n","e","c","t","i","o","n">> }

Topics_endpoint_os ==
    { <<"p","a","t","c","h"," ","m","a","n","a","g","e","m","e","n","t">>,
      <<"d","e","v","i","c","e"," ","h","a","r","d","e","n","i","n","g">>,
      <<"o","p","e","r","a","t","i","n","g"," ","s","y","s","t","e","m"," ","s","e","c","u","r","i","t","y">>,
      <<"m","o","b","i","l","e"," ","s","e","c","u","r","i","t","y">>,
      <<"b","y","o","d"," ","s","e","c","u","r","i","t","y">>,
      <<"e","n","d","p","o","i","n","t"," ","p","r","o","t","e","c","t","i","o","n">>,
      <<"a","n","t","i","-","m","a","l","w","a","r","e">>,
      <<"a","n","t","i","v","i","r","u","s">>,
      <<"z","e","r","o"," ","t","r","u","s","t">> }

Topics_org_process ==
    { <<"s","e","c","u","r","i","t","y"," ","p","o","l","i","c","y">>,
      <<"r","i","s","k"," ","m","a","n","a","g","e","m","e","n","t">>,
      <<"i","n","c","i","d","e","n","t"," ","m","a","n","a","g","e","m","e","n","t"," ","p","l","a","n">>,
      <<"b","u","s","i","n","e","s","s"," ","c","o","n","t","i","n","u","i","t","y">>,
      <<"d","i","s","a","s","t","e","r"," ","r","e","c","o","v","e","r","y">>,
      <<"i","n","c","i","d","e","n","t"," ","r","e","s","p","o","n","s","e">> }

Topics_cloud_api ==
    { <<"c","l","o","u","d"," ","s","e","c","u","r","i","t","y">>,
      <<"d","a","t","a"," ","r","e","s","i","d","e","n","c","y">>,
      <<"s","h","a","r","e","d"," ","r","e","s","p","o","n","s","i","b","i","l","i","t","y"," ","m","o","d","e","l">>,
      <<"a","p","i"," ","s","e","c","u","r","i","t","y">>,
      <<"x","d","r">>,
      <<"e","x","t","e","n","d","e","d"," ","d","e","t","e","c","t","i","o","n"," ","a","n","d"," ","r","e","s","p","o","n","s","e">>,
      <<"e","d","r">>,
      <<"e","n","d","p","o","i","n","t"," ","d","e","t","e","c","t","i","o","n"," ","a","n","d"," ","r","e","s","p","o","n","s","e">>,
      <<"m","x","d","r">>,
      <<"m","a","n","a","g","e","d"," ","x","d","r">>,
      <<"s","o","a","r">>,
      <<"s","e","c","u","r","i","t","y"," ","o","r","c","h","e","s","t","r","a","t","i","o","n"," ","a","u","t","o","m","a","t","i","o","n"," ","a","n","d"," ","r","e","s","p","o","n","s","e">> }

Topics_threats ==
    { <<"b","o","t","n","e","t">>,
      <<"s","p","y","w","a","r","e">>,
      <<"k","e","y","l","o","g","g","e","r">>,
      <<"t","r","o","j","a","n">>,
      <<"a","d","w","a","r","e">>,
      <<"d","d","o","s">>,
      <<"d","e","n","i","a","l"," ","o","f"," ","s","e","r","v","i","c","e">>,
      <<"z","e","r","o","-","d","a","y"," ","e","x","p","l","o","i","t">>,
      <<"i","n","s","i","d","e","r"," ","t","h","r","e","a","t">>,
      <<"t","h","r","e","a","t"," ","d","e","t","e","c","t","i","o","n">>,
      <<"t","h","r","e","a","t"," ","a","c","t","o","r">>,
      <<"c","y","b","e","r"," ","a","t","t","a","c","k">>,
      <<"c","y","b","e","r"," ","t","h","r","e","a","t">> }

Topics_frameworks ==
    { <<"i","s","o"," ","2","7","0","0","1">>,
      <<"g","d","p","r">>,
      <<"p","d","p","a">>,
      <<"i","n","f","o","r","m","a","t","i","o","n"," ","s","e","c","u","r","i","t","y">>,
      <<"c","y","b","e","r","s","e","c","u","r","i","t","y">>,
      <<"i","n","f","o","s","e","c">> }

Topics_education ==
    { <<"c","y","b","e","r"," ","e","t","h","i","c","s">>,
      <<"d","i","g","i","t","a","l"," ","c","i","t","i","z","e","n","s","h","i","p">>,
      <<"s","a","f","e"," ","o","n","l","i","n","e"," ","b","e","h","a","v","i","o","r">>,
      <<"s","e","c","u","r","i","t","y"," ","t","r","a","i","n","i","n","g">>,
      <<"c","y","b","e","r","b","u","l","l","y","i","n","g"," ","p","r","e","v","e","n","t","i","o","n">>,
      <<"s","e","c","u","r","i","t","y"," ","a","w","a","r","e","n","e","s","s">> }

Topics_common_typos ==
    { <<"p","h","i","s","i","n","g">>,
      <<"p","i","s","h","i","n","g">>,
      <<"f","i","s","h","i","n","g">>,
      <<"p","h","i","s","h">>,
      <<"p","a","s","w","o","r","d">>,
      <<"p","a","s","s","w","r","d">>,
      <<"p","a","s","s"," ","w","o","r","d">>,
      <<"p","a","s","p","h","r","a","s","e">>,
      <<"m","a","l","w","e","a","r">>,
      <<"m","a","l","w","a","r">>,
      <<"r","a","n","s","o","m","w","e","a","r">>,
      <<"r","a","n","d","s","o","m","w","a","r","e">>,
      <<"a","d","d","w","a","r","e">>,
      <<"s","p","y"," ","w","a","r","e">>,
      <<"c","y","b","e","r"," ","s","e","c","u","r","i","t","y">>,
      <<"c","i","b","e","r","s","e","c","u","r","i","t","y">>,
      <<"c","i","b","e","r">>,
      <<"c","y","b","e","r","s","e","c">>,
      <<"i","n","f","o","s","e","c","u","r","i","t","y">>,
      <<"w","i","-","f","i">>,
      <<"w","i"," ","f","i">>,
      <<"f","i","r","e"," ","w","a","l","l">>,
      <<"a","n","t","i"," ","v","i","r","u","s">>,
      <<"a","n","t","i","-","v","i","r","u","s">>,
      <<"a","u","t","h","e","n","t","i","f","i","c","a","t","i","o","n">>,
      <<"a","u","t","h","e","n","i","c","a","t","i","o","n">>,
      <<"p","r","i","v","i","l","e","d","g","e">>,
      <<"h","y","g","e","n","e">> }

CYBER_TOPICS ==
    Topics_awareness
    \cup Topics_auth_access
    \cup Topics_network_internet
    \cup Topics_endpoint_os
    \cup Topics_org_process
    \cup Topics_cloud_api
    \cup Topics_threats
    \cup Topics_frameworks
    \cup Topics_education
    \cup Topics_common_typos
\* The redirect of guardrails_or_offtopic is one of two fixed messages or None;
\* it is named here by its kind: "deny", "offtopic" or "none".
\* guardrails_or_offtopic, had it looked at the history before the banned terms
history_before_banned(user_text, history_len) ==
    LET q == Lower(user_text)
    IN  IF history_len > 0 THEN "none"
        ELSE IF \E k \in BANNED : WordSearch(k, q) THEN "deny"
        ELSE IF ~ \E k \in CYBER_TOPICS : Contains(k, q) THEN "offtopic"
        ELSE "none"

\* guardrails_or_offtopic, had it asked for a topic on every turn
topic_on_every_turn(user_text, history_len) ==
    LET q == Lower(user_text)
    IN  IF \E k \in BANNED : WordSearch(k, q) THEN "deny"
        ELSE IF ~ \E k \in CYBER_TOPICS : Contains(k, q) THEN "offtopic"
        ELSE "none"

\* guardrails_or_offtopic, had it looked for the topics as whole words
topic_as_whole_word(user_text, history_len) ==
    LET q == Lower(user_text)
    IN  IF \E k \in BANNED : WordSearch(k, q) THEN "deny"
        ELSE IF history_len > 0 THEN "none"
        ELSE IF ~ \E k \in CYBER_TOPICS : WordSearch(k, q) THEN "offtopic"
        ELSE "none"

guardrails_or_offtopic(user_text, history_len) ==
    LET q == Lower(user_text)
    IN  IF \E k \in BANNED : WordSearch(k, q) THEN "deny"
        ELSE IF history_len > 0 THEN "none"
        ELSE IF ~ \E k \in CYBER_TOPICS : Contains(k, q) THEN "offtopic"
        ELSE "none"

-----------------------------------------------------------------------------
(* The texts of the messages.  A history holds a text by its spelling;     *)
(* Chars gives its characters, on which the code's tests are computed.     *)

Chars(t) ==
    CASE t = "" -> <<>>
    [] t = "Yes" -> <<"Y","e","s">>
    [] t = "abc" -> <<"a","b","c">>
    [] t = "Abc1!" -> <<"A","b","c","1","!">>
    [] t = "password" -> <<"p","a","s","s","w","o","r","d">>
    [] t = "strong password phishing quiz" -> <<"s","t","r","o","n","g"," ","p","a","s","s","w","o","r","d"," ","p","h","i","s","h","i","n","g"," ","q","u","i","z">>
    [] t = "strong password" -> <<"s","t","r","o","n","g"," ","p","a","s","s","w","o","r","d">>
    [] t = "Phishing" -> <<"P","h","i","s","h","i","n","g">>
    [] t = "crack Password1!" -> <<"c","r","a","c","k"," ","P","a","s","s","w","o","r","d","1","!">>
    [] t = "a" -> <<"a">>
    [] t = "A" -> <<"A">>
    [] t = "1" -> <<"1">>
    [] t = "!" -> <<"!">>
    [] t = "A1" -> <<"A","1">>
    [] t = "A!" -> <<"A","!">>
    [] t = "1!" -> <<"1","!">>
    [] t = "a1!" -> <<"a","1","!">>
    [] t = "A1!" -> <<"A","1","!">>
    [] t = "ok" -> <<"o","k">>
    [] t = "Abc1" -> <<"A","b","c","1">>
    [] t = "phishing password" -> <<"p","h","i","s","h","i","n","g"," ","p","a","s","s","w","o","r","d">>
    [] t = "authentication authorization accountability" ->
          <<"a","u","t","h","e","n","t","i","c","a","t","i","o","n"," ","a","u","t","h","o","r","i","z","a","t","i","o","n"," ","a","c","c","o","u","n","t","a","b","i","l","i","t","y">>
    [] t = "vpn" -> <<"v","p","n">>
    [] t = "what is this" -> <<"w","h","a","t"," ","i","s"," ","t","h","i","s">>
    [] t = "Would you like to play a game?" -> <<"W","o","u","l","d"," ","y","o","u"," ","l","i","k","e"," ","t","o"," ","p","l","a","y"," ","a"," ","g","a","m","e","?">>

\* the characters of each text of a list
CharsOfAll(ts) == [i \in DOMAIN ts |-> Chars(ts[i])]

-----------------------------------------------------------------------------
(* Messages, conversations and the session record.                         *)
(*                                                                         *)
(* A history entry (role, msg) is [role, kind, text]: kind names the fixed *)
(* wording of the message and text is the text embedded in it (the user's  *)
(* message, the model's reply, the error); a user entry has kind "text".   *)
(* A handler works on the record S of the session's keys and returns it.   *)

Msg(role, kind, text) == [role |-> role, kind |-> kind, text |-> text]

NONE == 0

DEFAULT_NAME == <<"N","e","w"," ","C","h","a","t">>

Ids(cs) == { cs[i].id : i \in DOMAIN cs }

Names(cs) == { cs[i].name : i \in DOMAIN cs }

IndexOf(cs, id) == CHOOSE i \in DOMAIN cs : cs[i].id = id

Conv(cs, id) == cs[IndexOf(cs, id)]

\* dict.pop(id, None) on the ordered dict
RemoveId(cs, id) == SelectSeq(cs, LAMBDA c : c.id # id)

Session ==
    [ client |-> client, logged_in |-> logged_in, user_info |-> user_info, convos |-> convos,
      active_id |-> active_id, renaming |-> renaming,
      confirming_delete |-> confirming_delete,
      password_question_count |-> password_question_count,
      phishing_question_count |-> phishing_question_count,
      in_password_game |-> in_password_game,
      password_game_step |-> password_game_step,
      user_password |-> user_password, store |-> store, next_uuid |-> next_uuid,
      missing |-> {},      \* the keys popped from st.session_state in this run
      trace |-> <<>>,      \* the stages of the handler, in the order they ran
      game_calls |-> 0,    \* invocations of handle_password_game in this run
      prompt |-> <<>>,     \* the lines of the prompt given to the backend in this run
      syncs |-> 0,         \* calls of the persistence functions in this run
      synced |-> <<>> ]    \* the conversations given to the last save of this run

-----------------------------------------------------------------------------
(* src/src/firebase_auth.py: the documents of one user, oldest first       *)

HasDoc(docs, id) == \E i \in DOMAIN docs : docs[i].id = id

\* doc_ref.delete()
DeleteDoc(docs, id) == SelectSeq(docs, LAMBDA d : d.id # id)

\* doc_ref.set(..., merge=True): an existing document keeps its creation time
SetDoc(docs, c) ==
    IF HasDoc(docs, c.id)
    THEN [i \in DOMAIN docs |-> IF docs[i].id = c.id THEN c ELSE docs[i]]
    ELSE Append(docs, c)

\* lines 202-214: the document written for a conversation; the history goes
\* as a list of {role, content} and cipher.encrypt is kept opaque
EncodeSession(c) ==
    [ id |-> c.id,
      encrypted_data |->
          [ name |-> c.name,
            history |-> [i \in DOMAIN c.history |->
                            [ role |-> c.history[i].role,
                              content |-> [ kind |-> c.history[i].kind,
                                            text |-> c.history[i].text ] ]] ] ]

\* lines 155-167: the conversation read from a document
DecodeSession(doc) ==
    LET clean_session == doc.encrypted_data
    IN  [ id |-> doc.id,
          name |-> clean_session.name,
          history |-> [i \in DOMAIN clean_session.history |->
                          Msg(clean_session.history[i].role,
                              clean_session.history[i].content.kind,
                              clean_session.history[i].content.text)] ]

\* save_conversations_to_firestore, had it written the empty conversations too
RECURSIVE SaveEveryFrom(_, _, _)
SaveEveryFrom(docs, cs, i) ==
    IF i > Len(cs) THEN docs
    ELSE SaveEveryFrom(SetDoc(docs, EncodeSession(cs[i])), cs, i + 1)

save_every_conversation(docs, cs) == SaveEveryFrom(docs, cs, 1)

RECURSIVE SaveFrom(_, _, _)
SaveFrom(docs, cs, i) ==
    IF i > Len(cs) THEN docs
    ELSE SaveFrom(IF cs[i].history # <<>> THEN SetDoc(docs, EncodeSession(cs[i]))
                  ELSE DeleteDoc(docs, cs[i].id),
                  cs, i + 1)

save_conversations_to_firestore(docs, cs) == SaveFrom(docs, cs, 1)

\* the documents come back decrypted and sorted by creation time
load_conversations_from_firestore(docs) ==
    [i \in DOMAIN docs |-> DecodeSession(docs[i])]

delete_conversation_from_firestore(docs, chat_id) == DeleteDoc(docs, chat_id)

-----------------------------------------------------------------------------
(* src/src/session.py                                                      *)

_new_session(id, name) == [id |-> id, name |-> name, history |-> <<>>]

\* save_convos, had it not reached the store
save_skipped(S) == S

save_convos(S) ==
    IF S.logged_in /\ S.user_info # "none"
    THEN [S EXCEPT !.store[S.user_info] =
                       save_conversations_to_firestore(@, S.convos),
                   !.syncs = @ + 1,
                   !.synced = S.convos]
    ELSE S

\* the id create_new_chat returns when called on S
NewId(S) == S.next_uuid + 1

create_new_chat(S) ==
    save_convos([S EXCEPT !.next_uuid = NewId(S),
                          !.convos = Append(@, _new_session(NewId(S), DEFAULT_NAME))])

\* ensure_session_state, had it stopped after the default keys (line 62)
keys_only(S) ==
    [S EXCEPT !.convos = IF "convos" \in S.missing THEN <<>> ELSE @,
              !.active_id = IF "active_id" \in S.missing THEN NONE ELSE @,
              !.user_info = IF "user_info" \in S.missing THEN "none" ELSE @,
              !.missing = {}]

ensure_session_state(S) ==
    LET S1 == [S EXCEPT !.convos = IF "convos" \in S.missing THEN <<>> ELSE @,
                        !.active_id = IF "active_id" \in S.missing THEN NONE ELSE @,
                        !.user_info = IF "user_info" \in S.missing THEN "none" ELSE @,
                        !.missing = {}]
        S2 == IF S1.convos = <<>>
              THEN [create_new_chat(S1) EXCEPT !.active_id = NewId(S1)]
              ELSE S1
    IN  IF S2.active_id \notin Ids(S2.convos)
        THEN [S2 EXCEPT !.active_id = S2.convos[1].id]
        ELSE S2

load_user_data_from_firestore(S) ==
    LET cs == load_conversations_from_firestore(S.store[S.user_info])
        S1 == [S EXCEPT !.convos = cs]
    IN  IF cs # <<>>
        THEN [S1 EXCEPT !.active_id = cs[1].id]
        ELSE [create_new_chat(S1) EXCEPT !.active_id = NewId(S1)]

\* active_session() up to its return: the healing of active_id
active_session(S) ==
    IF S.active_id \notin Ids(S.convos)
    THEN IF S.convos # <<>>
         THEN [S EXCEPT !.active_id = S.convos[1].id]
         ELSE [create_new_chat(S) EXCEPT !.active_id = NewId(S)]
    ELSE S

active_history(S) == Conv(S.convos, S.active_id).history

set_active_history(S, h) ==
    LET S1 == active_session(S)
    IN  save_convos([S1 EXCEPT !.convos[IndexOf(S1.convos, S1.active_id)].history = h])

append_msg(S, role, kind, text) ==
    LET S1 == active_session(S)
    IN  set_active_history(S1, Append(active_history(S1), Msg(role, kind, text)))

find_empty_chat(cs) ==
    IF \E i \in DOMAIN cs : cs[i].history = <<>>
    THEN cs[CHOOSE i \in DOMAIN cs :
                /\ cs[i].history = <<>>
                /\ \A j \in 1..(i - 1) : cs[j].history # <<>>].id
    ELSE NONE

-----------------------------------------------------------------------------
(* src/src/game.py                                                         *)

\* has_uppercase, had it accepted every password
has_uppercase_always(password) == TRUE

has_uppercase(password) == \E i \in DOMAIN password : IsUpperChar(password[i])

\* has_number, had it taken an uppercase letter for a number too
has_number_or_uppercase(password) ==
    \E i \in DOMAIN password : IsDigitChar(password[i]) \/ IsUpperChar(password[i])

has_number(password) == \E i \in DOMAIN password : IsDigitChar(password[i])

SYMBOLS ==
    {"!","@","#","$","%","^","&","*","(",")",",",".","?",":","{","}","|","<",">"}

\* has_symbol, had it accepted every character as a symbol
has_symbol_any(password) == password # <<>>

\* has_symbol, had its character class been empty
has_symbol_never(password) == FALSE

has_symbol(password) == \E i \in DOMAIN password : password[i] \in SYMBOLS

\* the missing_str of step 4, as the kind of the regression message
MissingKind(password) ==
    IF ~has_uppercase(password) /\ ~has_number(password) THEN "s4_lost_uppercase_and_number"
    ELSE IF ~has_uppercase(password) THEN "s4_lost_uppercase"
    ELSE "s4_lost_number"

\* lines 20-22, had the user's message been appended at every level
every_time(is_recursive) == TRUE

\* lines 20-22: "if this is the FIRST time processing it"
first_time(is_recursive) == ~is_recursive

\* handle_password_game, had the branch of step 4 re-evaluated the text after
\* the victory
RECURSIVE handle_password_game_again(_, _, _)
handle_password_game_again(S0, user_msg, is_recursive) ==
    LET Sa == IF first_time(is_recursive) THEN append_msg(S0, "user", "text", user_msg) ELSE S0
        S  == [Sa EXCEPT !.game_calls = @ + 1]
        step == S.password_game_step
        Sp == [S EXCEPT !.user_password = user_msg]
        pw == Chars(user_msg)
        Say(T, kind) == append_msg(T, "assistant", kind, user_msg)
    IN  CASE step = 0 ->
               [append_msg(S, "assistant", "game_start", "")
                    EXCEPT !.password_game_step = 1]
          [] step = 1 ->
               IF ~has_uppercase(pw)
               THEN [Say(Sp, "s1_add_uppercase") EXCEPT !.password_game_step = 2]
               ELSE LET S3 == [Say(Sp, "s1_has_uppercase") EXCEPT !.password_game_step = 3]
                    IN  IF has_number(pw)
                        THEN handle_password_game_again(S3, user_msg, TRUE)
                        ELSE S3
          [] step = 2 ->
               IF has_uppercase(pw)
               THEN LET S3 == [Say(Sp, "s2_add_number") EXCEPT !.password_game_step = 3]
                    IN  IF has_number(pw)
                        THEN handle_password_game_again(S3, user_msg, TRUE)
                        ELSE S3
               ELSE Say(Sp, "s2_retry_uppercase")
          [] step = 3 ->
               IF ~has_uppercase(pw)
               THEN Say(Sp, "s3_lost_uppercase")
               ELSE IF has_number(pw)
               THEN LET S4 == [Say(Sp, "s3_add_symbol") EXCEPT !.password_game_step = 4]
                    IN  IF has_symbol(pw)
                        THEN handle_password_game_again(S4, user_msg, TRUE)
                        ELSE S4
               ELSE Say(Sp, "s3_retry_number")
          [] step = 4 ->
               IF ~has_uppercase(pw) \/ ~has_number(pw)
               THEN Say(Sp, MissingKind(pw))
               ELSE IF has_symbol(pw)
               THEN handle_password_game_again(
                        [Say(Sp, "s4_congratulations")
                            EXCEPT !.in_password_game = FALSE,
                                   !.password_game_step = 0,
                                   !.password_question_count = 0],
                        user_msg, TRUE)
               ELSE Say(Sp, "s4_retry_symbol")
          [] OTHER -> S

\* handle_password_game, had a lost uppercase letter at step 3 sent the game
\* back to step 2
RECURSIVE handle_password_game_back(_, _, _)
handle_password_game_back(S0, user_msg, is_recursive) ==
    LET Sa == IF first_time(is_recursive) THEN append_msg(S0, "user", "text", user_msg) ELSE S0
        S  == [Sa EXCEPT !.game_calls = @ + 1]
        step == S.password_game_step
        Sp == [S EXCEPT !.user_password = user_msg]
        pw == Chars(user_msg)
        Say(T, kind) == append_msg(T, "assistant", kind, user_msg)
    IN  CASE step = 0 ->
               [append_msg(S, "assistant", "game_start", "")
                    EXCEPT !.password_game_step = 1]
          [] step = 1 ->
               IF ~has_uppercase(pw)
               THEN [Say(Sp, "s1_add_uppercase") EXCEPT !.password_game_step = 2]
               ELSE LET S3 == [Say(Sp, "s1_has_uppercase") EXCEPT !.password_game_step = 3]
                    IN  IF has_number(pw)
                        THEN handle_password_game_back(S3, user_msg, TRUE)
                        ELSE S3
          [] step = 2 ->
               IF has_uppercase(pw)
               THEN LET S3 == [Say(Sp, "s2_add_number") EXCEPT !.password_game_step = 3]
                    IN  IF has_number(pw)
                        THEN handle_password_game_back(S3, user_msg, TRUE)
                        ELSE S3
               ELSE Say(Sp, "s2_retry_uppercase")
          [] step = 3 ->
               IF ~has_uppercase(pw)
               THEN [Say(Sp, "s3_lost_uppercase") EXCEPT !.password_game_step = 2]
               ELSE IF has_number(pw)
               THEN LET S4 == [Say(Sp, "s3_add_symbol") EXCEPT !.password_game_step = 4]
                    IN  IF has_symbol(pw)
                        THEN handle_password_game_back(S4, user_msg, TRUE)
                        ELSE S4
               ELSE Say(Sp, "s3_retry_number")
          [] step = 4 ->
               IF ~has_uppercase(pw) \/ ~has_number(pw)
               THEN Say(Sp, MissingKind(pw))
               ELSE IF has_symbol(pw)
               THEN [Say(Sp, "s4_congratulations")
                        EXCEPT !.in_password_game = FALSE,
                               !.password_game_step = 0,
                               !.password_question_count = 0]
               ELSE Say(Sp, "s4_retry_symbol")
          [] OTHER -> S

RECURSIVE handle_password_game(_, _, _)
handle_password_game(S0, user_msg, is_recursive) ==
    LET Sa == IF first_time(is_recursive) THEN append_msg(S0, "user", "text", user_msg) ELSE S0
        S  == [Sa EXCEPT !.game_calls = @ + 1]
        step == S.password_game_step
        Sp == [S EXCEPT !.user_password = user_msg]
        pw == Chars(user_msg)
        Say(T, kind) == append_msg(T, "assistant", kind, user_msg)
    IN  CASE step = 0 ->
               [append_msg(S, "assistant", "game_start", "")
                    EXCEPT !.password_game_step = 1]
          [] step = 1 ->
               IF ~has_uppercase(pw)
               THEN [Say(Sp, "s1_add_uppercase") EXCEPT !.password_game_step = 2]
               ELSE LET S3 == [Say(Sp, "s1_has_uppercase") EXCEPT !.password_game_step = 3]
                    IN  IF has_number(pw)
                        THEN handle_password_game(S3, user_msg, TRUE)
                        ELSE S3
          [] step = 2 ->
               IF has_uppercase(pw)
               THEN LET S3 == [Say(Sp, "s2_add_number") EXCEPT !.password_game_step = 3]
                    IN  IF has_number(pw)
                        THEN handle_password_game(S3, user_msg, TRUE)
                        ELSE S3
               ELSE Say(Sp, "s2_retry_uppercase")
          [] step = 3 ->
               IF ~has_uppercase(pw)
               THEN Say(Sp, "s3_lost_uppercase")
               ELSE IF has_number(pw)
               THEN LET S4 == [Say(Sp, "s3_add_symbol") EXCEPT !.password_game_step = 4]
                    IN  IF has_symbol(pw)
                        THEN handle_password_game(S4, user_msg, TRUE)
                        ELSE S4
               ELSE Say(Sp, "s3_retry_number")
          [] step = 4 ->
               IF ~has_uppercase(pw) \/ ~has_number(pw)
               THEN Say(Sp, MissingKind(pw))
               ELSE IF has_symbol(pw)
               THEN [Say(Sp, "s4_congratulations")
                        EXCEPT !.in_password_game = FALSE,
                               !.password_game_step = 0,
                               !.password_question_count = 0]
               ELSE Say(Sp, "s4_retry_symbol")
          [] OTHER -> S

-----------------------------------------------------------------------------
(* src/src/llm.py                                                          *)

_STOPWORDS ==
    { <<"w","h","a","t">>, <<"h","o","w">>, <<"w","h","y">>, <<"i","s">>,
      <<"a","r","e">>, <<"t","h","e">>, <<"a">>, <<"a","n">>, <<"o","f">>,
      <<"i","n">>, <<"t","o">>, <<"f","o","r">>, <<"o","n">>, <<"w","i","t","h">>,
      <<"a","n","d">>, <<"o","r">>, <<"m","y">>, <<"y","o","u","r">>, <<"o","u","r">>,
      <<"t","h","e","i","r">>, <<"t","h","i","s">>, <<"t","h","a","t">>, <<"i","t">>,
      <<"d","o">>, <<"d","o","e","s">>, <<"c","a","n">>, <<"s","h","o","u","l","d">>,
      <<"c","o","u","l","d">>, <<"a","b","o","u","t">>, <<"p","l","e","a","s","e">>,
      <<"t","e","l","l">>, <<"m","e">>, <<"e","x","p","l","a","i","n">> }

OFFTOPIC_SUFFIX ==
    <<" ","(","N","o","t"," ","C","y","b","e","r","s","e","c","u","r","i","t","y",
      " ","R","e","l","a","t","e","d",")">>

TITLE_MAX == 40

HISTORY_WINDOW == 8

TITLE_WORDS == 6

\* str.strip()
RECURSIVE LStrip(_)
LStrip(s) == IF s # <<>> /\ IsSpaceChar(s[1]) THEN LStrip(Tail(s)) ELSE s

RECURSIVE RStrip(_)
RStrip(s) ==
    IF s # <<>> /\ IsSpaceChar(s[Len(s)]) THEN RStrip(SubSeq(s, 1, Len(s) - 1)) ELSE s

Strip(s) == LStrip(RStrip(s))

\* s[:n]
Take(s, n) == SubSeq(s, 1, IF Len(s) < n THEN Len(s) ELSE n)

\* s[-n:]
LastN(s, n) == SubSeq(s, IF Len(s) > n THEN Len(s) - n + 1 ELSE 1, Len(s))

\* str.split(): the maximal runs of non-whitespace characters
WordStarts(s) ==
    { i \in DOMAIN s : ~IsSpaceChar(s[i]) /\ (i = 1 \/ IsSpaceChar(s[i - 1])) }

WordEnds(s) ==
    { i \in DOMAIN s : ~IsSpaceChar(s[i]) /\ (i = Len(s) \/ IsSpaceChar(s[i + 1])) }

\* the n-th smallest member of a set of positions
Nth(ps, n) == CHOOSE i \in ps : Cardinality({ j \in ps : j < i }) = n - 1

Split(s) ==
    [n \in 1..Cardinality(WordStarts(s)) |->
        SubSeq(s, Nth(WordStarts(s), n), Nth(WordEnds(s), n))]

\* sep.join(parts)
RECURSIVE Join(_, _)
Join(parts, sep) ==
    IF parts = <<>> THEN <<>>
    ELSE IF Len(parts) = 1 THEN parts[1]
    ELSE parts[1] \o sep \o Join(Tail(parts), sep)

\* str.title(): a letter after a non-letter is upper-cased, any other lower-cased
Title(s) ==
    [i \in DOMAIN s |->
        IF i = 1 \/ ~(IsUpperChar(s[i - 1]) \/ IsLowerChar(s[i - 1]))
        THEN UpperChar(s[i]) ELSE LowerChar(s[i])]

_clean_title(text) ==
    LET kept  == SelectSeq(Lower(text),
                        LAMBDA c : IsWordChar(c) \/ IsSpaceChar(c) \/ c = "-")
        words == SelectSeq(Split(kept), LAMBDA w : w \notin _STOPWORDS)
        t     == Title(Join(Take(words, TITLE_WORDS), <<" ">>))
    IN  IF t # <<>> THEN t ELSE <<"C","h","a","t">>

\* str(n) for the suffix numbers the model reaches
IntText(n) ==
    LET d(k) == <<"0","1","2","3","4","5","6","7","8","9">>[k + 1]
    IN  IF n < 10 THEN <<d(n)>> ELSE <<d(n \div 10), d(n % 10)>>

Numbered(name, n) == name \o <<" ", "(">> \o IntText(n) \o <<")">>

\* _ensure_unique_name, had it stopped at the first candidate
first_candidate(name, cs) ==
    IF name \notin Names(cs) THEN name ELSE Numbered(name, 2)

_ensure_unique_name(name, cs) ==
    LET existing == Names(cs)
    IN  IF name \notin existing THEN name
        ELSE Numbered(name,
                      CHOOSE n \in 2..(Cardinality(existing) + 2) :
                          /\ Numbered(name, n) \notin existing
                          /\ \A m \in 2..(n - 1) : Numbered(name, m) \in existing)

\* the test of the default names, had every name passed it
any_name(name) == TRUE

IsDefaultName(name) ==
    \/ name \in {DEFAULT_NAME, <<"N","e","w"," ","c","h","a","t">>}
    \/ StartsWith(name, <<"C","h","a","t"," ">>)

\* A backend answer is [ok, text]: ok is FALSE when the call raises, and text
\* is resp.text (empty when the response has none).
Resp(ok, text) == [ok |-> ok, text |-> text]

\* re.sub(r'["""\.\!\?\:]', "", resp.text.strip().replace("\n", " "))
TitleFromResponse(text) ==
    SelectSeq([i \in DOMAIN Strip(text) |->
                IF Strip(text)[i] = "\n" THEN " " ELSE Strip(text)[i]],
           LAMBDA c : c \notin {"\"", ".", "!", "?", ":"})

\* set_title_from_msgs, had it asked the backend only from the second user turn
backend_from_second_turn(S, session_id, user_msgs, title_resp) ==
    LET sess == Conv(S.convos, session_id)
        fromBackend == IF S.client /\ title_resp.ok /\ Len(user_msgs) >= 2
                       THEN TitleFromResponse(title_resp.text) ELSE <<>>
        title0 == IF fromBackend # <<>> THEN fromBackend
                  ELSE _clean_title(Join(CharsOfAll(Take(user_msgs, 2)), <<" ">>))
        title  == Strip(Take(title0, TITLE_MAX))
    IN  IF user_msgs = <<>> \/ ~IsDefaultName(sess.name) THEN S
        ELSE save_convos(
                 [S EXCEPT !.convos[IndexOf(S.convos, session_id)].name =
                               _ensure_unique_name(title, S.convos),
                           !.trace = Append(@, IF fromBackend # <<>>
                                               THEN "title_backend"
                                               ELSE "title_fallback")])

set_title_from_msgs(S, session_id, user_msgs, title_resp) ==
    LET sess == Conv(S.convos, session_id)
        fromBackend == IF S.client /\ title_resp.ok
                       THEN TitleFromResponse(title_resp.text) ELSE <<>>
        title0 == IF fromBackend # <<>> THEN fromBackend
                  ELSE _clean_title(Join(CharsOfAll(Take(user_msgs, 2)), <<" ">>))
        title  == Strip(Take(title0, TITLE_MAX))
    IN  IF user_msgs = <<>> \/ ~IsDefaultName(sess.name) THEN S
        ELSE save_convos(
                 [S EXCEPT !.convos[IndexOf(S.convos, session_id)].name =
                               _ensure_unique_name(title, S.convos),
                           !.trace = Append(@, IF fromBackend # <<>>
                                               THEN "title_backend"
                                               ELSE "title_fallback")])

\* [m for (r, m) in history if r == "user"]
UserMsgs(history) ==
    LET us == SelectSeq(history, LAMBDA m : m.role = "user")
    IN  [i \in DOMAIN us |-> us[i].text]

auto_title_if_needed(S, session_id, title_resp) ==
    LET sess == Conv(S.convos, session_id)
        user_msgs == Take(UserMsgs(sess.history), 2)
    IN  IF ~IsDefaultName(sess.name) \/ user_msgs = <<>> THEN S
        ELSE set_title_from_msgs(S, session_id, user_msgs, title_resp)

_maybe_update_title_after_first_turn(S, title_resp) ==
    IF Len(UserMsgs(Conv(S.convos, S.active_id).history)) \in {1, 2}
    THEN auto_title_if_needed(S, S.active_id, title_resp)
    ELSE S

mark_offtopic(S, session_id, title_resp) ==
    LET name0 == Conv(S.convos, session_id).name
        user_msgs == LastN(UserMsgs(Conv(S.convos, session_id).history), 2)
        S1 == IF /\ \/ StartsWith(Lower(name0), Lower(DEFAULT_NAME))
                    \/ StartsWith(name0, <<"C","h","a","t"," ">>)
                 /\ user_msgs # <<>>
              THEN set_title_from_msgs(S, session_id, user_msgs, title_resp)
              ELSE S
        name == Conv(S1.convos, session_id).name
    IN  IF ~EndsWith(name, OFFTOPIC_SUFFIX)
        THEN save_convos(
                 [S1 EXCEPT !.convos[IndexOf(S1.convos, session_id)].name =
                                _ensure_unique_name(name \o OFFTOPIC_SUFFIX, S1.convos)])
        ELSE S1

\* one line of the prompt: "System: ...", "User: ..." or "Tutor: ..." with the
\* message it carries, and the bare "Tutor:" that ends the prompt
PromptLine(label, kind, text) == [label |-> label, kind |-> kind, text |-> text]

TurnLines(history) ==
    [i \in DOMAIN history |->
        PromptLine(IF history[i].role = "user" THEN "User" ELSE "Tutor",
                   history[i].kind, history[i].text)]

\* the lines that "\n".join(convo) joins
build_prompt(system_instruction, user_msg, history) ==
    <<PromptLine("System", "text", system_instruction)>>
        \o TurnLines(LastN(history, HISTORY_WINDOW))
        \o <<PromptLine("User", "text", user_msg), PromptLine("Tutor", "open", "")>>
-----------------------------------------------------------------------------
(* src/app.py: the chat input handler of show_chatbot_ui                   *)

\* lines 42-48: the tutor's instruction, one text
SYSTEM_INSTRUCTION == "SYSTEM_INSTRUCTION"

T_password == <<"p","a","s","s","w","o","r","d">>

T_phishing == <<"p","h","i","s","h","i","n","g">>

T_yes == <<"y","e","s">>

INVITE_PHRASE ==
    <<"w","o","u","l","d"," ","y","o","u"," ","l","i","k","e"," ","t","o"," ",
      "p","l","a","y"," ","a"," ","g","a","m","e">>

improve_keywords ==
    { <<"i","m","p","r","o","v","e">>, <<"b","e","t","t","e","r">>,
      <<"s","e","c","u","r","e">>, <<"s","t","r","o","n","g">>, <<"s","a","f","e">>,
      <<"s","t","r","e","n","g","t","h","e","n">> }

phishing_test_keywords ==
    { <<"t","e","s","t">>, <<"q","u","i","z">>, <<"c","h","e","c","k">>,
      <<"p","r","a","c","t","i","c","e">>, <<"g","a","m","e">>, <<"s","p","o","t">>,
      <<"i","d","e","n","t","i","f","y">> }

\* "would you like to play a game" in msg.lower(): of the fixed wordings only
\* game_msg holds the phrase; any message may embed a text that holds it
HasInvitePhrase(m) ==
    m.kind = "invite" \/ Contains(INVITE_PHRASE, Lower(Chars(m.text)))

Stage(S, name) == [S EXCEPT !.trace = Append(@, name)]

\* lines 223-229, had any assistant message been taken for the invite
IsGameEntryAfterAnyReply(S, user_msg) ==
    LET history == active_history(S)
    IN  /\ Lower(Chars(user_msg)) = T_yes
        /\ Len(history) > 0
        /\ history[Len(history)].role = "assistant"

\* lines 223-229: the reply that enters the game
IsGameEntry(S, user_msg) ==
    LET history == active_history(S)
    IN  /\ Lower(Chars(user_msg)) = T_yes
        /\ Len(history) > 0
        /\ history[Len(history)].role = "assistant"
        /\ HasInvitePhrase(history[Len(history)])

\* lines 238-242, had the keywords been looked for in the text as typed
UpdateCountersAsTyped(S, user_msg) ==
    [Stage(S, "counters") EXCEPT
        !.password_question_count =
            IF Contains(T_password, Chars(user_msg)) THEN @ + 1 ELSE @,
        !.phishing_question_count =
            IF Contains(T_phishing, Chars(user_msg)) THEN @ + 1 ELSE @]

\* lines 238-242
UpdateCounters(S, user_msg) ==
    [Stage(S, "counters") EXCEPT
        !.password_question_count =
            IF Contains(T_password, Lower(Chars(user_msg))) THEN @ + 1 ELSE @,
        !.phishing_question_count =
            IF Contains(T_phishing, Lower(Chars(user_msg))) THEN @ + 1 ELSE @]

\* lines 246-250: the redirect branch
Redirect(S, user_msg, redirect, title_resp) ==
    LET S1 == append_msg(Stage(S, redirect), "user", "text", user_msg)
        S2 == append_msg(S1, "assistant", redirect, "")
    IN  mark_offtopic(S2, S2.active_id, title_resp)

\* lines 252-275, had the text collected so far been kept on a failure
ModelCallKeepsPartial(S, user_msg, reply) ==
    LET S1 == append_msg(S, "user", "text", user_msg)
        S2 == [Stage(S1, "model_call") EXCEPT
                  !.prompt = build_prompt(SYSTEM_INSTRUCTION, user_msg, active_history(S1))]
    IN  IF S.client
        THEN append_msg(S2, "assistant", "reply", reply.text)
        ELSE append_msg(Stage(S1, "no_client"), "assistant", "error", "")

\* lines 252-275: the user's message, the backend call, the response
ModelCall(S, user_msg, reply) ==
    LET S1 == append_msg(S, "user", "text", user_msg)
        S2 == [Stage(S1, "model_call") EXCEPT
                  !.prompt = build_prompt(SYSTEM_INSTRUCTION, user_msg, active_history(S1))]
    IN  IF S.client /\ reply.ok
        THEN append_msg(S2, "assistant", "reply", reply.text)
        ELSE IF S.client
        THEN append_msg(S2, "assistant", "error", "")
        ELSE append_msg(Stage(S1, "no_client"), "assistant", "error", "")

\* lines 278-304, had the invite at a count of 3 or more been left out
PasswordTriggerByCoinOnly(S, user_msg, coin) ==
    LET q == Lower(Chars(user_msg))
        trigger_game ==
            IF Contains(T_password, q) /\ \E k \in improve_keywords : Contains(k, q)
            THEN TRUE
            ELSE S.password_question_count = 2 /\ coin
    IN  IF trigger_game /\ ~S.in_password_game
        THEN [append_msg(Stage(S, "invite"), "assistant", "invite", "")
                 EXCEPT !.password_question_count = 0]
        ELSE S

\* lines 278-304, had the invite left the counter as it was
PasswordTriggerKeepsCount(S, user_msg, coin) ==
    LET q == Lower(Chars(user_msg))
        trigger_game ==
            IF Contains(T_password, q) /\ \E k \in improve_keywords : Contains(k, q)
            THEN TRUE
            ELSE \/ S.password_question_count >= 3
                 \/ S.password_question_count = 2 /\ coin
    IN  IF trigger_game /\ ~S.in_password_game
        THEN append_msg(Stage(S, "invite"), "assistant", "invite", "")
        ELSE S

\* lines 278-304
PasswordTrigger(S, user_msg, coin) ==
    LET q == Lower(Chars(user_msg))
        trigger_game ==
            IF Contains(T_password, q) /\ \E k \in improve_keywords : Contains(k, q)
            THEN TRUE
            ELSE \/ S.password_question_count >= 3
                 \/ S.password_question_count = 2 /\ coin
    IN  IF trigger_game /\ ~S.in_password_game
        THEN [append_msg(Stage(S, "invite"), "assistant", "invite", "")
                 EXCEPT !.password_question_count = 0]
        ELSE S

\* lines 309-333, had the counter been left as it was (line 333 missing)
PhishingTriggerKeepsCount(S, user_msg, coin) ==
    LET q == Lower(Chars(user_msg))
        trigger_phishing ==
            IF Contains(T_phishing, q) /\ \E k \in phishing_test_keywords : Contains(k, q)
            THEN TRUE
            ELSE \/ S.phishing_question_count >= 3
                 \/ S.phishing_question_count = 2 /\ coin
    IN  IF trigger_phishing
        THEN append_msg(Stage(S, "quiz"), "assistant", "quiz", "")
        ELSE S

\* lines 309-333, had the quiz message reset both counters
PhishingTriggerResetsBoth(S, user_msg, coin) ==
    LET q == Lower(Chars(user_msg))
        trigger_phishing ==
            IF Contains(T_phishing, q) /\ \E k \in phishing_test_keywords : Contains(k, q)
            THEN TRUE
            ELSE \/ S.phishing_question_count >= 3
                 \/ S.phishing_question_count = 2 /\ coin
    IN  IF trigger_phishing
        THEN [append_msg(Stage(S, "quiz"), "assistant", "quiz", "")
                 EXCEPT !.phishing_question_count = 0,
                        !.password_question_count = 0]
        ELSE S

\* lines 309-333
PhishingTrigger(S, user_msg, coin) ==
    LET q == Lower(Chars(user_msg))
        trigger_phishing ==
            IF Contains(T_phishing, q) /\ \E k \in phishing_test_keywords : Contains(k, q)
            THEN TRUE
            ELSE \/ S.phishing_question_count >= 3
                 \/ S.phishing_question_count = 2 /\ coin
    IN  IF trigger_phishing
        THEN [append_msg(Stage(S, "quiz"), "assistant", "quiz", "")
                 EXCEPT !.phishing_question_count = 0]
        ELSE S

\* lines 244-338: what follows the counters when the game is not active
GuardedTurn(S, user_msg, reply, title_resp, coin_pw, coin_ph) ==
    LET redirect == guardrails_or_offtopic(Chars(user_msg), Len(active_history(S)))
        S1 == Stage(S, "classify")
    IN  IF redirect # "none"
        THEN Redirect(S1, user_msg, redirect, title_resp)
        ELSE LET S2 == ModelCall(S1, user_msg, reply)
                 S3 == PasswordTrigger(Stage(S2, "triggers"), user_msg, coin_pw)
                 S4 == PhishingTrigger(S3, user_msg, coin_ph)
             IN  _maybe_update_title_after_first_turn(Stage(S4, "title"), title_resp)

\* lines 222-338, had the guardrail been asked before the game
ChatInputGuardFirst(S0, user_msg, reply, title_resp, coin_pw, coin_ph) ==
    LET S == active_session(S0)
    IN  IF guardrails_or_offtopic(Chars(user_msg), Len(active_history(S))) = "deny"
        THEN Redirect(Stage(S, "classify"), user_msg, "deny", title_resp)
        ELSE IF IsGameEntry(S, user_msg)
        THEN handle_password_game(
                 [Stage(S, "game_entry") EXCEPT !.in_password_game = TRUE],
                 user_msg, FALSE)
        ELSE IF S.in_password_game
        THEN handle_password_game(Stage(S, "game_dispatch"), user_msg, FALSE)
        ELSE LET S1 == UpdateCounters(S, user_msg)
             IN  IF ~S1.in_password_game
                 THEN GuardedTurn(S1, user_msg, reply, title_resp, coin_pw, coin_ph)
                 ELSE S1

\* lines 222-338; st.rerun() ends the run where it is called
ChatInput(S0, user_msg, reply, title_resp, coin_pw, coin_ph) ==
    LET S == active_session(S0)
    IN  IF IsGameEntry(S, user_msg)
        THEN handle_password_game(
                 [Stage(S, "game_entry") EXCEPT !.in_password_game = TRUE],
                 user_msg, FALSE)
        ELSE IF S.in_password_game
        THEN handle_password_game(Stage(S, "game_dispatch"), user_msg, FALSE)
        ELSE LET S1 == UpdateCounters(S, user_msg)
             IN  IF ~S1.in_password_game
                 THEN GuardedTurn(S1, user_msg, reply, title_resp, coin_pw, coin_ph)
                 ELSE S1

-----------------------------------------------------------------------------
(* src/app.py: the sidebar handlers and the script's start                 *)

\* lines 93-117, when the script runs show_chatbot_ui
SidebarHeal(S) ==
    IF S.convos # <<>>
    THEN IF S.active_id \notin Ids(S.convos)
         THEN [S EXCEPT !.active_id = S.convos[1].id]
         ELSE S
    ELSE save_convos([create_new_chat(S) EXCEPT !.active_id = NewId(S)])

\* st.rerun(): the script starts again (line 36, then lines 341-345)
Rerun(S) ==
    LET S1 == ensure_session_state(S)
    IN  IF S1.logged_in THEN SidebarHeal(S1) ELSE S1

\* lines 132-147, had the last remaining conversation become the active one
DeleteChatToLast(S) ==
    LET S1 == IF S.user_info # "none"
              THEN [S EXCEPT !.store[S.user_info] =
                                 delete_conversation_from_firestore(@, S.active_id),
                             !.syncs = @ + 1]
              ELSE S
        S2 == [S1 EXCEPT !.convos = RemoveId(@, S.active_id)]
        S3 == IF S2.convos # <<>>
              THEN [S2 EXCEPT !.active_id = S2.convos[Len(S2.convos)].id]
              ELSE [create_new_chat([S2 EXCEPT !.active_id = NONE])
                       EXCEPT !.active_id = NewId(S2)]
    IN  [save_convos(S3) EXCEPT !.confirming_delete = FALSE]

\* lines 132-147
DeleteChat(S) ==
    LET S1 == IF S.user_info # "none"
              THEN [S EXCEPT !.store[S.user_info] =
                                 delete_conversation_from_firestore(@, S.active_id),
                             !.syncs = @ + 1]
              ELSE S
        S2 == [S1 EXCEPT !.convos = RemoveId(@, S.active_id)]
        S3 == IF S2.convos # <<>>
              THEN [S2 EXCEPT !.active_id = S2.convos[1].id]
              ELSE [create_new_chat([S2 EXCEPT !.active_id = NONE])
                       EXCEPT !.active_id = NewId(S2)]
    IN  [save_convos(S3) EXCEPT !.confirming_delete = FALSE]

\* lines 158-166, had New created a conversation whether or not an empty one
\* exists
NewChatAlways(S) ==
    save_convos([create_new_chat(S) EXCEPT !.active_id = NewId(S)])

\* lines 158-166, had a new chat ended the game
NewChatLeavingGame(S) ==
    IF find_empty_chat(S.convos) # NONE THEN [S EXCEPT !.in_password_game = FALSE]
    ELSE save_convos([create_new_chat(S) EXCEPT !.active_id = NewId(S),
                                                !.in_password_game = FALSE])

\* lines 158-166
NewChat(S) ==
    IF find_empty_chat(S.convos) # NONE THEN S
    ELSE save_convos([create_new_chat(S) EXCEPT !.active_id = NewId(S)])

\* lines 181-185
SaveName(S, new_name) ==
    save_convos(
        [S EXCEPT !.convos[IndexOf(S.convos, S.active_id)].name =
                      IF Strip(new_name) # <<>> THEN Strip(new_name) ELSE @,
                  !.renaming = FALSE])

\* lines 202-212, had Sign Out popped the counters as well
SignOutClearingCounters(S) ==
    [S EXCEPT !.logged_in = FALSE,
              !.password_question_count = 0,
              !.phishing_question_count = 0,
              !.missing = {"user_info", "convos", "active_id"}]

\* lines 202-212, had Sign Out ended the game and left its step
SignOutEndingGame(S) ==
    [S EXCEPT !.logged_in = FALSE,
              !.in_password_game = FALSE,
              !.missing = {"user_info", "convos", "active_id"}]

\* lines 202-212
SignOutClick(S) ==
    [S EXCEPT !.logged_in = FALSE,
              !.missing = {"user_info", "convos", "active_id"}]

\* src/src/login.py lines 72-75
SignIn(S, uid) ==
    load_user_data_from_firestore([S EXCEPT !.logged_in = TRUE, !.user_info = uid])

-----------------------------------------------------------------------------
(* The inputs of the model and its bounds.                                 *)

MaxTurns == 3

MaxOps == 2

MaxUuid == 3

MaxChatTurns == 3

MaxGameTurns == 3

MaxGuardHistory == 2

MaxMarkCalls == 2

MaxStockOps == 4

MaxStockUuid == 6

MaxPromptPairs == 5

MaxPromptTurns == 2

MaxTitleTurns == 3

MaxInviteTurns == 3

MaxSessionTurns == 2

Users == {"u1"}

\* what the user types into the chat input: in Spec, in SpecChat, in SpecGame
TurnTexts == { "Yes", "Abc1!", "strong password" }

ChatTexts ==
    { "Yes", "abc", "Abc1!", "password", "strong password", "Phishing",
      "crack Password1!" }

GameTexts == { "Yes", "a", "A", "1", "!", "A1", "A!", "1!", "a1!", "A1!", "Abc1" }

\* what the streamed generation may end in: a text, or an exception before or
\* after some of the text has arrived
ModelReplies == { Resp(TRUE, "ok"), Resp(FALSE, ""), Resp(FALSE, "ok") }

\* what the title request may end in
TitleResponses ==
    { Resp(TRUE, <<"\"","S","a","f","e"," ","L","o","g","i","n","s",".","\"">>),
      Resp(FALSE, <<>>) }

NoTitle == Resp(FALSE, <<>>)

NoResp == Resp(FALSE, "")

\* what the user may type into the rename box
RenameInputs == { <<"N","o","t","e","s"," ">>, <<" ">> }

-----------------------------------------------------------------------------
(* The state machine: one action per handler, each followed by the rerun   *)
(* of the script that the handler asks for.                                *)

\* `last` after a handler of the sidebar or of the login page
Sidebar ==
    [ op |-> "sidebar", text |-> "", trace |-> <<>>, game_calls |-> 0, prompt |-> <<>>,
      pre |-> [step |-> 0, in_game |-> FALSE, pqc |-> 0, phc |-> 0, hlen |-> 0] ]

Pre ==
    [ step |-> password_game_step, in_game |-> in_password_game,
      pqc |-> password_question_count, phc |-> phishing_question_count,
      hlen |-> Len(active_history(Session)) ]

\* the session keys after S
Becomes(S) ==
    /\ logged_in' = S.logged_in
    /\ user_info' = S.user_info
    /\ convos' = S.convos
    /\ active_id' = S.active_id
    /\ renaming' = S.renaming
    /\ confirming_delete' = S.confirming_delete
    /\ password_question_count' = S.password_question_count
    /\ phishing_question_count' = S.phishing_question_count
    /\ in_password_game' = S.in_password_game
    /\ password_game_step' = S.password_game_step
    /\ user_password' = S.user_password
    /\ store' = S.store
    /\ next_uuid' = S.next_uuid

Commit(op, text, S) ==
    LET R == Rerun(S)
    IN  /\ Becomes(R)
        /\ last' = IF op = "turn"
                   THEN [ op |-> op, text |-> text, trace |-> R.trace,
                          game_calls |-> R.game_calls, prompt |-> R.prompt,
                          pre |-> Pre ]
                   ELSE Sidebar
        /\ UNCHANGED <<client, guard>>

\* the session when the script has run once: ensure_session_state on no keys
Start(c) ==
    [ client |-> c, logged_in |-> FALSE, user_info |-> "none",
      convos |-> <<_new_session(1, DEFAULT_NAME)>>, active_id |-> 1,
      renaming |-> FALSE, confirming_delete |-> FALSE,
      password_question_count |-> 0, phishing_question_count |-> 0,
      in_password_game |-> FALSE, password_game_step |-> 0, user_password |-> "",
      store |-> [u \in Users |-> <<>>], next_uuid |-> 1,
      missing |-> {}, trace |-> <<>>, game_calls |-> 0, prompt |-> <<>>,
      syncs |-> 0, synced |-> <<>> ]

IdleGuard == [pre |-> <<>>, word |-> <<>>, post |-> <<>>, history_len |-> 0, verdict |-> "idle"]

Is(S) ==
    /\ client = S.client
    /\ logged_in = S.logged_in
    /\ user_info = S.user_info
    /\ convos = S.convos
    /\ active_id = S.active_id
    /\ renaming = S.renaming
    /\ confirming_delete = S.confirming_delete
    /\ password_question_count = S.password_question_count
    /\ phishing_question_count = S.phishing_question_count
    /\ in_password_game = S.in_password_game
    /\ password_game_step = S.password_game_step
    /\ user_password = S.user_password
    /\ store = S.store
    /\ next_uuid = S.next_uuid

Init ==
    /\ \E c \in BOOLEAN : Is(Start(c))
    /\ turns = 0
    /\ ops = 0
    /\ last = Sidebar
    /\ guard = IdleGuard

Login ==
    /\ ~logged_in
    /\ \E u \in Users :
          /\ store[u] = <<>> => next_uuid < MaxUuid
          /\ Commit("login", "", SignIn(Session, u))
    /\ UNCHANGED <<turns, ops>>

\* a handler of the sidebar, which the model counts
SidebarOp(S) ==
    /\ logged_in
    /\ ops < MaxOps
    /\ ops' = ops + 1
    /\ Commit("sidebar", "", S)
    /\ UNCHANGED turns

SignOut ==
    /\ next_uuid < MaxUuid
    /\ SidebarOp(SignOutClick(Session))

SelectConversation ==
    \E i \in DOMAIN convos :
       /\ convos[i].id # active_id
       /\ SidebarOp([Session EXCEPT !.active_id = convos[i].id])

New ==
    /\ ~confirming_delete
    /\ next_uuid < MaxUuid
    /\ SidebarOp(NewChat(Session))

Rename ==
    /\ ~confirming_delete
    /\ SidebarOp([Session EXCEPT !.renaming = TRUE])

RenameSave ==
    /\ renaming
    /\ \E new_name \in RenameInputs : SidebarOp(SaveName(Session, new_name))

RenameCancel ==
    /\ renaming
    /\ SidebarOp([Session EXCEPT !.renaming = FALSE])

Delete ==
    /\ ~confirming_delete
    /\ SidebarOp([Session EXCEPT !.confirming_delete = TRUE])

DeleteYes ==
    /\ confirming_delete
    /\ next_uuid < MaxUuid
    /\ SidebarOp(DeleteChat(Session))

DeleteCancel ==
    /\ confirming_delete
    /\ SidebarOp([Session EXCEPT !.confirming_delete = FALSE])

\* The inputs a run of the chat handler may read on S.  The backend is asked
\* for a response when there is a client and the message is neither the game's
\* nor redirected, and for a title only when there is a client and the active
\* conversation has a default name; each coin is flipped only when its counter
\* stands at 2 after the update of a message that is not redirected.
TurnInputs(S, user_msg) ==
    LET S1 == UpdateCounters(active_session(S), user_msg)
        to_game == IsGameEntry(S, user_msg) \/ S.in_password_game
        to_model == /\ ~to_game
                    /\ guardrails_or_offtopic(Chars(user_msg), Len(active_history(S1))) = "none"
        name == Conv(S1.convos, S1.active_id).name
        titled == /\ ~to_game
                  /\ S.client
                  /\ \/ IsDefaultName(name)
                     \/ StartsWith(Lower(name), Lower(DEFAULT_NAME))
        coins(n) == IF to_model /\ n = 2 THEN BOOLEAN ELSE {FALSE}
    IN  [ reply : IF to_model /\ S.client THEN ModelReplies ELSE {NoResp},
          title_resp : IF titled THEN TitleResponses ELSE {NoTitle},
          coin_pw : coins(S1.password_question_count),
          coin_ph : coins(S1.phishing_question_count) ]

\* the chat input, with the user's text drawn from texts
Turn(texts, bound) ==
    /\ logged_in
    /\ turns < bound
    /\ turns' = turns + 1
    /\ UNCHANGED ops
    /\ \E user_msg \in texts :
       \E in \in TurnInputs(Session, user_msg) :
          Commit("turn", user_msg,
                 ChatInput(Session, user_msg, in.reply, in.title_resp,
                           in.coin_pw, in.coin_ph))

UserTurn == Turn(TurnTexts, MaxTurns)

Next ==
    \/ Login
    \/ SignOut
    \/ SelectConversation
    \/ New
    \/ Rename
    \/ RenameSave
    \/ RenameCancel
    \/ Delete
    \/ DeleteYes
    \/ DeleteCancel
    \/ UserTurn

Spec == Init /\ [][Next]_vars

-----------------------------------------------------------------------------
(* SpecChat: one user who signs in and chats in one conversation, with the *)
(* larger set of texts.                                                    *)

ChatTurn == Turn(ChatTexts, MaxChatTurns)

ChatNext ==
    \/ Login
    \/ ChatTurn

SpecChat == Init /\ [][ChatNext]_vars

-----------------------------------------------------------------------------
(* SpecGame: the game from the moment it is offered or was entered.  The   *)
(* first state is one the handlers reach from Start by a sign-in and the   *)
(* message "strong password", which fires the invite, or "phishing         *)
(* password", which the backend answers with a text that holds the         *)
(* invite's phrase; and then, when entered, the reply "Yes".               *)

NewRun(S) ==
    [S EXCEPT !.trace = <<>>, !.game_calls = 0, !.prompt = <<>>,
              !.syncs = 0, !.synced = <<>>]

PhraseReply == Resp(TRUE, "Would you like to play a game?")

Offered(c, invited, entered) ==
    LET S1 == Rerun(SignIn(Start(c), "u1"))
        S2 == IF invited
              THEN Rerun(ChatInput(NewRun(S1), "strong password", NoResp, NoTitle,
                                   FALSE, FALSE))
              ELSE Rerun(ChatInput(NewRun(S1), "phishing password", PhraseReply,
                                   NoTitle, FALSE, FALSE))
        S3 == IF entered
              THEN Rerun(ChatInput(NewRun(S2), "Yes", NoResp, NoTitle, FALSE, FALSE))
              ELSE S2
    IN  NewRun(S3)

GameInit ==
    /\ \E c \in BOOLEAN : \E invited \in BOOLEAN : \E entered \in BOOLEAN :
          /\ c \/ invited
          /\ Is(Offered(c, invited, entered))
    /\ turns = 0
    /\ ops = 0
    /\ last = Sidebar
    /\ guard = IdleGuard

GameTurn == Turn(GameTexts, MaxGameTurns)

GameNext == GameTurn

SpecGame == GameInit /\ [][GameNext]_vars


-----------------------------------------------------------------------------
(* SpecGuard: guardrails_or_offtopic on texts made of a banned term in     *)
(* some spelling, with something before it and something after it, and on  *)
(* histories of every length up to MaxGuardHistory.                        *)

Capitalize(s) == IF s = <<>> THEN s ELSE <<UpperChar(s[1])>> \o Tail(s)

GuardWords == UNION { {k, Upper(k), Capitalize(k)} : k \in BANNED }

GuardPrefixes == { <<>>, <<"a"," ">>, <<"(">>, <<"x">> }

GuardSuffixes == { <<>>, <<" ","b">>, <<"?">>, <<"s">> }

GuardInit ==
    /\ Is(Start(FALSE))
    /\ turns = 0
    /\ ops = 0
    /\ last = Sidebar
    /\ guard \in [ pre : GuardPrefixes, word : GuardWords, post : GuardSuffixes,
                   history_len : 0..MaxGuardHistory, verdict : {"idle"} ]

Classify ==
    /\ guard.verdict = "idle"
    /\ guard' = [guard EXCEPT !.verdict =
                    guardrails_or_offtopic(guard.pre \o guard.word \o guard.post,
                                           guard.history_len)]
    /\ UNCHANGED <<logged_in, user_info, convos, active_id, renaming,
                   confirming_delete, password_question_count,
                   phishing_question_count, in_password_game, password_game_step,
                   user_password, client, store, next_uuid, turns, ops, last>>

GuardNext == Classify

SpecGuard == GuardInit /\ [][GuardNext]_vars

-----------------------------------------------------------------------------
(* What the last run of the chat handler did, read off the state.          *)

ActiveHistory == active_history(Session)

\* the messages the last chat input appended to the active conversation
Appended == SubSeq(ActiveHistory, last.pre.hlen + 1, Len(ActiveHistory))

AppendedKinds == { Appended[i].kind : i \in DOMAIN Appended }

AssistantCount == Cardinality({ i \in DOMAIN Appended : Appended[i].role = "assistant" })

\* the last run was an external call of handle_password_game
GameCall == last.op = "turn" /\ last.game_calls > 0

TextHasUppercase == \E i \in DOMAIN Chars(last.text) : IsUpperChar(Chars(last.text)[i])

TextHasDigit == \E i \in DOMAIN Chars(last.text) : IsDigitChar(Chars(last.text)[i])

TextHasSymbol == \E i \in DOMAIN Chars(last.text) : Chars(last.text)[i] \in SYMBOLS

Victory == "s4_congratulations" \in AppendedKinds

-----------------------------------------------------------------------------
(* The password game (SpecGame).                                           *)

\* C1, as the code has it: one external call of handle_password_game
\* re-evaluates the text at most twice more (three evaluations in all, the
\* third only from step 1 or 2 on a text with an uppercase letter, a digit and
\* a symbol, and it ends in victory); each evaluation appends one assistant
\* message, so at most three; the step ends at most 3 higher, or at 0.
C1_SkipAheadAtMostTwice ==
    GameCall =>
        /\ last.game_calls <= 3
        /\ AssistantCount = last.game_calls
        /\ last.game_calls = 3 =>
              /\ last.pre.step \in {1, 2}
              /\ TextHasUppercase /\ TextHasDigit /\ TextHasSymbol
              /\ Victory
        /\ \/ Victory /\ password_game_step = 0
           \/ password_game_step - last.pre.step \in 0..3

\* C1 as stated: at most one extra re-evaluation, the step advances by at most
\* 2 and at most two assistant messages are appended.
C1_SkipAheadAtMostOnce ==
    GameCall =>
        /\ last.game_calls <= 2
        /\ AssistantCount <= 2
        /\ password_game_step - last.pre.step <= 2

C1_Witness ==
    /\ GameCall
    /\ last.pre.step = 2
    /\ last.game_calls = 3
    /\ AssistantCount = 3

\* C2, as the code has it: at step 1 a text with an uppercase letter and a
\* digit but no symbol leaves the game at step 4, having appended the user's
\* message and exactly two assistant messages: the one of step 1 and the one
\* of step 3.
C2_UpperDigitFromStep1EndsAtStep4 ==
    (GameCall /\ last.pre.step = 1 /\ TextHasUppercase /\ TextHasDigit /\ ~TextHasSymbol) =>
        /\ password_game_step = 4
        /\ in_password_game
        /\ [i \in DOMAIN Appended |-> Appended[i].kind]
              = <<"text", "s1_has_uppercase", "s3_add_symbol">>
        /\ AssistantCount = 2

\* C2 as stated: the same call leaves the game at step 3.
C2_UpperDigitFromStep1EndsAtStep3 ==
    (GameCall /\ last.pre.step = 1 /\ TextHasUppercase /\ TextHasDigit /\ ~TextHasSymbol) =>
        /\ password_game_step = 3
        /\ AssistantCount = 2

C2_Witness ==
    /\ GameCall
    /\ last.pre.step = 1
    /\ last.text = "Abc1"
    /\ password_game_step = 4

\* C3: an external game call appends the user's message exactly once, first,
\* and after it one assistant message per evaluation: 1 + the number of
\* skip-ahead levels taken.
C3_UserMessageOnceThenOnePerLevel ==
    GameCall =>
        /\ Len(Appended) = 1 + last.game_calls
        /\ Appended[1] = Msg("user", "text", last.text)
        /\ \A i \in 2..Len(Appended) : Appended[i].role = "assistant"

C3_Witness ==
    /\ GameCall
    /\ last.pre.step = 1
    /\ last.game_calls = 3
    /\ Len(Appended) = 4

\* C4: at step 4 a text with an uppercase letter, a digit and a symbol appends
\* the congratulations, sets the step to 0, the flag to false and
\* password_question_count to 0, and leaves phishing_question_count; a call
\* that does not append the congratulations leaves the flag true and the step
\* where it was or higher.
C4_Victory ==
    /\ (GameCall /\ last.pre.step = 4 /\ TextHasUppercase /\ TextHasDigit /\ TextHasSymbol) =>
          /\ Appended = << Msg("user", "text", last.text),
                           Msg("assistant", "s4_congratulations", last.text) >>
          /\ password_game_step = 0
          /\ ~in_password_game
          /\ password_question_count = 0
          /\ phishing_question_count = last.pre.phc
    /\ (GameCall /\ ~Victory) =>
          /\ in_password_game
          /\ password_game_step >= 1
          /\ password_game_step >= last.pre.step
          /\ password_question_count = last.pre.pqc
          /\ phishing_question_count = last.pre.phc

C4_Witness ==
    /\ GameCall
    /\ last.pre.step = 4
    /\ last.pre.pqc > 0
    /\ last.pre.phc > 0
    /\ Victory
    /\ ~in_password_game

\* C5: at step 3 a text without an uppercase letter keeps the step at 3, with
\* or without a digit; at step 4 a text that lacks an uppercase letter or a
\* digit keeps the step at 4, with or without a symbol; the congratulations are
\* never appended for a text that lacks an uppercase letter or a digit.
C5_Regression ==
    GameCall =>
        /\ (last.pre.step = 3 /\ ~TextHasUppercase) =>
              /\ password_game_step = 3
              /\ in_password_game
              /\ AppendedKinds = {"text", "s3_lost_uppercase"}
        /\ (last.pre.step = 4 /\ (~TextHasUppercase \/ ~TextHasDigit)) =>
              /\ password_game_step = 4
              /\ in_password_game
        /\ Victory => TextHasUppercase /\ TextHasDigit /\ TextHasSymbol

C5_Witness ==
    /\ GameCall
    /\ last.pre.step = 4
    /\ last.text = "1!"
    /\ password_game_step = 4
    /\ in_password_game

-----------------------------------------------------------------------------
(* The game over the life of a session (Spec).                             *)

\* C6: over every step of the session (a chat input, a sign-in or sign-out,
\* a switch, a creation, a rename, a deletion) the in-game flag goes from true
\* to false only in a chat input whose game call appends the congratulations
\* of step 4, and every chat input handled while the flag is true is given to
\* handle_password_game and to nothing else.
C6_GameActiveUntilSuccess ==
    [][ in_password_game =>
          /\ turns' = turns + 1 =>
                /\ last'.game_calls >= 1
                /\ last'.trace \in { <<"game_dispatch">>, <<"game_entry">> }
          /\ ~in_password_game' =>
                /\ turns' = turns + 1
                /\ Victory'
                /\ password_game_step' = 0 ]_vars

\* the game was entered in one conversation and won in another
C6_Witness ==
    /\ last.op = "turn"
    /\ last.pre.in_game
    /\ ~in_password_game
    /\ Victory
    /\ \E i \in DOMAIN convos :
          /\ convos[i].id # active_id
          /\ \E j \in DOMAIN convos[i].history : convos[i].history[j].kind = "game_start"

-----------------------------------------------------------------------------
(* The turn of the chat handler (SpecChat).                                *)

InTrace(stage) == \E i \in DOMAIN last.trace : last.trace[i] = stage

LowerText == Lower(Chars(last.text))

TextHasPassword == Contains(T_password, LowerText)

TextHasPhishing == Contains(T_phishing, LowerText)

TextBanned == \E k \in BANNED : WordSearch(k, LowerText)

\* the user's texts of the active conversation
UserTexts == UserMsgs(ActiveHistory)

\* every text so far holds "password" and none of the improvement synonyms
AllPlainPassword ==
    /\ Len(UserTexts) = turns
    /\ \A i \in DOMAIN UserTexts :
          /\ Contains(T_password, Lower(Chars(UserTexts[i])))
          /\ ~ \E k \in improve_keywords : Contains(k, Lower(Chars(UserTexts[i])))

NoneDenied == \A i \in DOMAIN ActiveHistory : ActiveHistory[i].kind # "deny"

InviteCount ==
    Cardinality({ i \in DOMAIN ActiveHistory : ActiveHistory[i].kind = "invite" })

\* C7, as the code has it: from a count of 0 with the game inactive, of three
\* consecutive turns that each hold "password", none of the improvement
\* synonyms and no banned term, the first fires no invite; the second fires it
\* iff the coin flipped at a count of 2 comes up true; the third fires it iff
\* the second did not; the count is 0 right after the turn that fires it, so 1
\* after the third turn when the second turn fired it.
C7_InviteOnSecondOrThird ==
    (last.op = "turn" /\ AllPlainPassword /\ NoneDenied) =>
        /\ turns = 1 => InviteCount = 0 /\ password_question_count = 1
        /\ turns = 2 =>
              \/ InTrace("invite") /\ InviteCount = 1 /\ password_question_count = 0
              \/ ~InTrace("invite") /\ InviteCount = 0 /\ password_question_count = 2
        /\ turns = 3 =>
              /\ InviteCount = 1
              /\ \/ InTrace("invite") /\ password_question_count = 0
                 \/ ~InTrace("invite") /\ password_question_count = 1

\* C7 as stated: the third of three such turns fires the invite and leaves the
\* count at 0, whatever the coin.
C7_InviteOnThird ==
    (last.op = "turn" /\ turns = 3 /\ AllPlainPassword) =>
        /\ InTrace("invite")
        /\ password_question_count = 0

\* the coin came up true on the second turn: the third fires nothing
C7_Witness ==
    /\ last.op = "turn"
    /\ turns = 3
    /\ AllPlainPassword
    /\ NoneDenied
    /\ ~InTrace("invite")
    /\ InviteCount = 1
    /\ password_question_count = 1

Inc(b) == IF b THEN 1 ELSE 0

\* C8, as the code has it: a turn that is not given to the game (denied,
\* off-topic or answered by the backend) updates the counters, each by exactly
\* 1 iff the text holds its keyword in any case, before a trigger resets it to
\* 0; a turn given to the game (the "yes" that enters it or a turn while it is
\* active) updates no counter, whatever the text holds.
C8_CountersOutsideTheGame ==
    last.op = "turn" =>
        /\ last.game_calls = 0 =>
              /\ InTrace("counters")
              /\ password_question_count =
                    IF InTrace("invite") THEN 0 ELSE last.pre.pqc + Inc(TextHasPassword)
              /\ phishing_question_count =
                    IF InTrace("quiz") THEN 0 ELSE last.pre.phc + Inc(TextHasPhishing)
        /\ last.game_calls > 0 =>
              /\ ~InTrace("counters")
              /\ password_question_count = IF Victory THEN 0 ELSE last.pre.pqc
              /\ phishing_question_count = last.pre.phc

\* C8 as stated: every turn that ends without a reset leaves each counter
\* higher by exactly 1 iff the text holds its keyword.
C8_CountersOnEveryTurn ==
    (last.op = "turn" /\ ~Victory) =>
        /\ ~InTrace("invite") =>
              password_question_count = last.pre.pqc + Inc(TextHasPassword)
        /\ ~InTrace("quiz") =>
              phishing_question_count = last.pre.phc + Inc(TextHasPhishing)

C8_Witness ==
    /\ GameCall
    /\ last.pre.in_game
    /\ TextHasPassword
    /\ ~Victory
    /\ password_question_count = last.pre.pqc

StageRank(stage) ==
    CASE stage \in {"game_entry", "game_dispatch"} -> 1
      [] stage = "counters" -> 2
      [] stage = "classify" -> 3
      [] stage \in {"deny", "offtopic", "model_call", "no_client"} -> 4
      [] stage = "triggers" -> 5
      [] stage = "invite" -> 6
      [] stage = "quiz" -> 7
      [] stage = "title" -> 8
      [] OTHER -> 9

-----------------------------------------------------------------------------
(* The guardrail (SpecGuard).                                              *)

\* the banned term of the text stands as a whole word
GuardWholeWord ==
    /\ guard.pre = <<>> \/ ~IsWordChar(guard.pre[Len(guard.pre)])
    /\ guard.post = <<>> \/ ~IsWordChar(guard.post[1])

\* C10: a text that holds a banned term as a whole word, in any case, is
\* answered with the Deny message for a history of any length, never with the
\* off-topic message and never with None.
C10_BannedWholeWordIsDenied ==
    (guard.verdict # "idle" /\ GuardWholeWord) => guard.verdict = "deny"

C10_Witness ==
    /\ guard.verdict = "deny"
    /\ GuardWholeWord
    /\ guard.history_len > 0
    /\ guard.word \notin BANNED
    /\ guard.pre # <<>>
    /\ guard.post # <<>>

-----------------------------------------------------------------------------
(* SpecTopics: guardrails_or_offtopic on texts made of an opening that     *)
(* holds no topic keyword, alone or followed by a member of CYBER_TOPICS.  *)

TopicBases ==
    { <<"h","i">>, <<"h","i"," ">>, <<"t","e","l","l"," ","a"," ","j","o","k","e"," ">>,
      <<"c","r","a","c","k"," ">> }

TopicInit ==
    /\ Is(Start(FALSE))
    /\ turns = 0
    /\ ops = 0
    /\ last = Sidebar
    /\ guard \in [ pre : TopicBases, word : CYBER_TOPICS \cup {<<>>}, post : {<<>>},
                   history_len : 0..MaxGuardHistory, verdict : {"idle"} ]

TopicNext == Classify

SpecTopics == TopicInit /\ [][TopicNext]_vars

GuardText == guard.pre \o guard.word \o guard.post

GuardTextBanned == \E k \in BANNED : WordSearch(k, Lower(GuardText))

BaseHoldsNoTopic == ~ \E k \in CYBER_TOPICS : Contains(k, Lower(guard.pre))

\* C11, as the code has it: for an empty history, a text that holds none of
\* the on-topic keywords is answered with the off-topic message unless it holds
\* a banned term as a whole word, which is denied; appending a member of the
\* on-topic keyword set makes the verdict None (allow) for every member, unless
\* the text then holds a banned term as a whole word ("ddos", "keylogger" and
\* "zero-day exploit" are keywords that do), which is denied.
C11_TopicKeywordAllowsUnlessBanned ==
    (guard.verdict # "idle" /\ guard.history_len = 0 /\ BaseHoldsNoTopic) =>
        /\ guard.word = <<>> =>
              guard.verdict = IF GuardTextBanned THEN "deny" ELSE "offtopic"
        /\ guard.word # <<>> =>
              guard.verdict = IF GuardTextBanned THEN "deny" ELSE "none"

\* C11 as stated: such a text is answered with the off-topic message, and
\* appending any member of the keyword set makes the verdict None.
C11_TopicKeywordAllows ==
    (guard.verdict # "idle" /\ guard.history_len = 0 /\ BaseHoldsNoTopic) =>
        /\ guard.word = <<>> => guard.verdict = "offtopic"
        /\ guard.word # <<>> => guard.verdict = "none"

C11_Witness ==
    /\ guard.history_len = 0
    /\ guard.pre = <<"h","i">>
    /\ guard.word = <<"v","p","n">>
    /\ guard.verdict = "none"

\* C12, as the code has it: for a non-empty history guardrails_or_offtopic
\* never returns the off-topic message; it returns None for every text that
\* holds no banned term as a whole word, and the Deny message for every text
\* that does: the topic test gates only the first turn, the banned terms gate
\* every turn.
C12_HistoryLiftsTopicGateOnly ==
    (guard.verdict # "idle" /\ guard.history_len > 0) =>
        guard.verdict = IF GuardWholeWord THEN "deny" ELSE "none"

\* C12 as stated: for a non-empty history the verdict is None for every text.
C12_HistoryAllowsEveryText ==
    (guard.verdict # "idle" /\ guard.history_len > 0) => guard.verdict = "none"

C12_Witness ==
    /\ guard.history_len > 0
    /\ ~GuardWholeWord
    /\ guard.verdict = "none"
    /\ guardrails_or_offtopic(GuardText, 0) = "offtopic"

-----------------------------------------------------------------------------
(* SpecMark: mark_offtopic called again and again on one conversation of a *)
(* set of two.  The names are ones the rename box and the title update can *)
(* give, the histories ones that redirected turns leave behind.            *)

Marked(name) == name \o OFFTOPIC_SUFFIX

MarkNames ==
    { DEFAULT_NAME, <<"A","b","c">>, Marked(<<"A","b","c">>), <<"C","h","a","t">>,
      Numbered(<<"C","h","a","t">>, 2), <<"N","o","t","e","s">> }

MarkHistories ==
    { <<>>,
      <<Msg("user", "text", "abc"), Msg("assistant", "offtopic", "")>>,
      <<Msg("user", "text", "what is this"), Msg("assistant", "offtopic", "")>> }

\* a signed-in session that holds two conversations
Stocked(c, n1, h1, n2, h2) ==
    LET S1 == Rerun(SignIn(Start(c), "u1"))
    IN  save_convos([S1 EXCEPT !.convos = << [_new_session(2, n1) EXCEPT !.history = h1],
                                             [_new_session(3, n2) EXCEPT !.history = h2] >>,
                               !.active_id = 2,
                               !.next_uuid = 3])

MarkInit ==
    /\ \E c \in BOOLEAN : \E n1, n2 \in MarkNames : \E h1, h2 \in MarkHistories :
          Is(Stocked(c, n1, h1, n2, h2))
    /\ turns = 0
    /\ ops = 0
    /\ \E id \in {2, 3} : last = [op |-> "mark", session_id |-> id, names |-> <<>>]
    /\ guard = IdleGuard

\* the title request is made only for a conversation that set_title_from_msgs
\* would rename, and only when there is a client
MarkTitleResponses(S, session_id) ==
    IF S.client /\ IsDefaultName(Conv(S.convos, session_id).name)
    THEN TitleResponses ELSE {NoTitle}

MarkOfftopic ==
    /\ turns < MaxMarkCalls
    /\ turns' = turns + 1
    /\ \E title_resp \in MarkTitleResponses(Session, last.session_id) :
          LET S == mark_offtopic(Session, last.session_id, title_resp)
          IN  /\ Becomes(S)
              /\ last' = [last EXCEPT !.names =
                                     Append(@, Conv(S.convos, last.session_id).name)]
    /\ UNCHANGED <<client, guard, ops>>

MarkNext == MarkOfftopic

SpecMark == MarkInit /\ [][MarkNext]_vars

\* how many times sub occurs in s
Occurrences(sub, s) == Cardinality({ p \in 1..Len(s) : OccursAt(sub, s, p) })

\* C13: off-topic marking is idempotent: for any conversation set and any
\* conversation in it, calling mark_offtopic twice in a row yields the same
\* name as calling it once, and that name contains the suffix
\* " (Not Cybersecurity Related)" exactly once, including when another
\* conversation already holds the suffixed name.
C13_MarkOfftopicIdempotent ==
    /\ Len(last.names) >= 1 => Occurrences(OFFTOPIC_SUFFIX, last.names[1]) = 1
    /\ Len(last.names) >= 2 => last.names[2] = last.names[1]

-----------------------------------------------------------------------------
(* The conversation set and the active conversation.                       *)

ActiveIsMember(S) == S.convos # <<>> /\ S.active_id \in Ids(S.convos)

\* R is S with its active conversation healed
Healed(S, R) ==
    /\ ActiveIsMember(R)
    /\ IF S.convos = <<>>
       THEN /\ R.convos = <<_new_session(NewId(S), DEFAULT_NAME)>>
            /\ R.active_id = NewId(S)
       ELSE /\ R.convos = S.convos
            /\ R.active_id = IF S.active_id \in Ids(S.convos)
                             THEN S.active_id ELSE S.convos[1].id

\* the session of the state with each conversation set and each active_id the
\* healing code is written for
Unhealed ==
    { [Session EXCEPT !.convos = cs, !.active_id = id] :
          cs \in {convos, <<>>}, id \in NONE..(MaxUuid + 1) }

\* C14: the conversation set is never empty and active_id references a member
\* of it in every state in which a turn is processed or a message is appended,
\* after any sequence of create, delete, rename, switch, login load and
\* sign-out; and each of ensure_session_state, active_session and the sidebar
\* heals an invalid active_id to the first member, or to a newly created
\* conversation when the set is empty.
C14_ActiveConversationExists ==
    /\ ActiveIsMember(Session)
    /\ \A S \in Unhealed :
          /\ Healed(S, ensure_session_state(S))
          /\ Healed(S, active_session(S))
          /\ Healed(S, SidebarHeal(S))

\* signed out after a turn: the set was dropped and a conversation created
C14_Witness ==
    /\ ~logged_in
    /\ turns >= 1
    /\ ops >= 1
    /\ Len(convos) = 1
    /\ convos[1].history = <<>>
    /\ active_id = next_uuid
    /\ active_id > 1

-----------------------------------------------------------------------------
(* SpecSidebar: the conversation buttons of the sidebar, from sessions     *)
(* that hold one, two or three conversations.  Each first state is reached *)
(* from Start by a sign-in and then messages and clicks on New.            *)

Filled(S) ==
    Rerun(ChatInput(NewRun(S), "abc", NoResp, NoTitle, FALSE, FALSE))

Grown(S) == Rerun(NewChat(NewRun(S)))

StockSessions ==
    LET S1 == [c \in BOOLEAN |-> Rerun(SignIn(Start(c), "u1"))]
        S2 == [c \in BOOLEAN |-> Grown(Filled(S1[c]))]
        S3 == [c \in BOOLEAN |-> Grown(Filled(S2[c]))]
    IN  UNION { {S1[c], Filled(S1[c]), S2[c], Filled(S2[c]), S3[c]} : c \in BOOLEAN }

StockInit ==
    /\ \E S \in StockSessions : Is(NewRun(S))
    /\ turns = 0
    /\ ops = 0
    /\ last = Sidebar
    /\ guard = IdleGuard

StockOp(S) ==
    /\ ops < MaxStockOps
    /\ ops' = ops + 1
    /\ Commit("sidebar", "", S)
    /\ UNCHANGED turns

StockSelect ==
    \E i \in DOMAIN convos :
       /\ convos[i].id # active_id
       /\ StockOp([Session EXCEPT !.active_id = convos[i].id])

StockNew ==
    /\ ~confirming_delete
    /\ next_uuid < MaxStockUuid
    /\ StockOp(NewChat(Session))

StockDelete ==
    /\ ~confirming_delete
    /\ StockOp([Session EXCEPT !.confirming_delete = TRUE])

StockDeleteYes ==
    /\ confirming_delete
    /\ next_uuid < MaxStockUuid
    /\ StockOp(DeleteChat(Session))

StockDeleteCancel ==
    /\ confirming_delete
    /\ StockOp([Session EXCEPT !.confirming_delete = FALSE])

StockNext ==
    \/ StockSelect
    \/ StockNew
    \/ StockDelete
    \/ StockDeleteYes
    \/ StockDeleteCancel

SpecSidebar == StockInit /\ [][StockNext]_vars

\* the step of the Yes button of the delete confirmation
DeletedStep == confirming_delete /\ ~confirming_delete' /\ convos' # convos

\* C15: deleting the only remaining conversation leaves the set with exactly
\* one conversation, which is newly created (fresh id, default name "New Chat",
\* empty history) and is the active one; deleting one of several conversations
\* removes the active one, makes the first remaining conversation active and
\* creates none.
C15_DeleteLeavesAnActiveConversation ==
    [][ DeletedStep =>
          IF Len(convos) = 1
          THEN /\ Len(convos') = 1
               /\ convos'[1].id \notin Ids(convos)
               /\ convos'[1].id = next_uuid'
               /\ next_uuid' = next_uuid + 1
               /\ convos'[1].name = DEFAULT_NAME
               /\ convos'[1].history = <<>>
               /\ active_id' = convos'[1].id
          ELSE /\ convos' = RemoveId(convos, active_id)
               /\ Len(convos') = Len(convos) - 1
               /\ active_id' = convos'[1].id
               /\ next_uuid' = next_uuid ]_vars

\* the first of three conversations was deleted
C15_Witness ==
    /\ Ids(convos) = {3, 4}
    /\ active_id = 3
    /\ next_uuid = 4
    /\ ~confirming_delete
    /\ ops = 3

-----------------------------------------------------------------------------
(* Entering the game, the invite, and the model turn.                      *)

\* the last run of the chat handler set the in-game flag
Entered == last.op = "turn" /\ ~last.pre.in_game /\ in_password_game

\* C16: the in-game flag changes from false to true only on a turn whose text
\* is "yes" in any case while the last message of the active conversation is an
\* assistant message that holds the invite phrase; on that turn the history
\* grows by exactly the user's message and the instructional message, the step
\* goes from 0 to 1, and neither the guardrail nor the backend is invoked.
C16_GameEnteredOnlyByYes ==
    Entered =>
        /\ LowerText = T_yes
        /\ last.pre.hlen > 0
        /\ ActiveHistory[last.pre.hlen].role = "assistant"
        /\ HasInvitePhrase(ActiveHistory[last.pre.hlen])
        /\ Appended = << Msg("user", "text", last.text),
                         Msg("assistant", "game_start", "") >>
        /\ last.pre.step = 0
        /\ password_game_step = 1
        /\ last.trace = <<"game_entry">>
        /\ last.game_calls = 1
        /\ ~InTrace("classify") /\ ~InTrace("model_call") /\ ~InTrace("no_client")

C16_Witness ==
    /\ Entered
    /\ last.text = "Yes"
    /\ ActiveHistory[last.pre.hlen].kind = "invite"
    /\ password_game_step = 1

\* the last run of the chat handler appended the invite
Invited == last.op = "turn" /\ "invite" \in AppendedKinds

\* C17: the password-game invite is appended only when the game is not
\* active: no run of the chat handler appends an invite while the in-game flag
\* is true, and a run that appends the invite appends it once and leaves
\* password_question_count at 0.
C17_InviteOnlyOutsideTheGame ==
    Invited =>
        /\ ~last.pre.in_game
        /\ ~in_password_game
        /\ last.game_calls = 0
        /\ InTrace("invite")
        /\ Cardinality({ i \in DOMAIN Appended : Appended[i].kind = "invite" }) = 1
        /\ password_question_count = 0

\* the third plain question about passwords fires the invite
C17_Witness ==
    /\ Invited
    /\ last.pre.pqc = 2
    /\ password_question_count = 0
    /\ ~in_password_game

IsResponse(m) == m.kind \in {"reply", "error"}

\* cs with every response of the backend, text or error, made the same
SameResponses(cs) ==
    [i \in DOMAIN cs |->
        [cs[i] EXCEPT !.history =
            [j \in DOMAIN cs[i].history |->
                IF IsResponse(cs[i].history[j])
                THEN Msg("assistant", "response", "") ELSE cs[i].history[j]]]]

\* S but for what the responses say and for the client that gave them
ButForResponses(S) ==
    [S EXCEPT !.convos = SameResponses(S.convos),
              !.store = [u \in Users |->
                            SameResponses(load_conversations_from_firestore(S.store[u]))],
              !.client = TRUE,
              !.prompt = <<>>,
              !.synced = SameResponses(S.synced),
              !.trace = [i \in DOMAIN S.trace |->
                            IF S.trace[i] = "no_client" THEN "model_call" ELSE S.trace[i]]]

IsModelTurn(R) ==
    \E i \in DOMAIN R.trace : R.trace[i] \in {"model_call", "no_client"}

\* the messages that R holds after the first n of its active conversation
NewMessages(R, n) == SubSeq(active_history(R), n + 1, Len(active_history(R)))

\* the run of the chat handler on user_msg with the inputs in
TurnOn(S, user_msg, in) ==
    ChatInput(NewRun(S), user_msg, in.reply, in.title_resp, in.coin_pw, in.coin_ph)

\* the same run with a client whose stream succeeds
TurnOnSuccess(S, user_msg, in) ==
    ChatInput(NewRun([S EXCEPT !.client = TRUE]), user_msg, Resp(TRUE, "ok"),
              in.title_resp, in.coin_pw, in.coin_ph)

\* C18: in a model turn the handler appends the user's message and then one
\* response, and no other response: the text of the stream when it has
\* completed, the error message when it has failed (whatever had arrived) or
\* when there is no client; the run then goes through both triggers and the
\* title update, and but for the response it ends in the state a successful
\* run on the same inputs ends in: counters, game state and conversations.
C18_ResponseCommittedOnce ==
    /\ (last.op = "turn" /\ (InTrace("model_call") \/ InTrace("no_client"))) =>
          /\ Len(Appended) >= 2
          /\ Appended[1] = Msg("user", "text", last.text)
          /\ IsResponse(Appended[2])
          /\ Cardinality({ i \in DOMAIN Appended : IsResponse(Appended[i]) }) = 1
          /\ InTrace("no_client") => Appended[2].kind = "error"
          /\ InTrace("triggers") /\ InTrace("title")
    /\ (logged_in /\ turns < MaxChatTurns) =>
          \A user_msg \in ChatTexts : \A in \in TurnInputs(Session, user_msg) :
             LET R == TurnOn(Session, user_msg, in)
                 new == NewMessages(R, Len(active_history(Session)))
             IN  IsModelTurn(R) =>
                    /\ new[2] = IF client /\ in.reply.ok
                                THEN Msg("assistant", "reply", in.reply.text)
                                ELSE Msg("assistant", "error", "")
                    /\ ButForResponses(R) =
                          ButForResponses(TurnOnSuccess(Session, user_msg, in))

\* a stream that failed, in a run that went on to fire the invite
C18_Witness ==
    /\ last.op = "turn"
    /\ InTrace("model_call")
    /\ Appended[2].kind = "error"
    /\ InTrace("invite")
    /\ InTrace("title")
    /\ password_question_count = 0

-----------------------------------------------------------------------------
(* SpecPrompt: model turns in a conversation that already holds up to      *)
(* MaxPromptPairs questions and their answers.  Each first state is        *)
(* reached from Start by a sign-in and that many turns "vpn".              *)

PromptTexts == { "vpn", "password" }

RECURSIVE Asked(_, _)
Asked(S, n) ==
    IF n = 0 THEN S
    ELSE Asked(Rerun(ChatInput(NewRun(S), "vpn", Resp(S.client, "ok"), NoTitle,
                               FALSE, FALSE)),
               n - 1)

PromptInit ==
    /\ \E c \in BOOLEAN : \E n \in 0..MaxPromptPairs :
          Is(NewRun(Asked(Rerun(SignIn(Start(c), "u1")), n)))
    /\ turns = 0
    /\ ops = 0
    /\ last = Sidebar
    /\ guard = IdleGuard

PromptTurn == Turn(PromptTexts, MaxPromptTurns)

PromptNext == PromptTurn

SpecPrompt == PromptInit /\ [][PromptNext]_vars

\* the active conversation as the last chat input found it
HistoryBefore == SubSeq(ActiveHistory, 1, last.pre.hlen)

\* C19: the prompt the generation backend receives in a model turn is the
\* System line, then the last 8 turns of the conversation history that precede
\* the new message, then the new user text exactly once as the final "User:"
\* line, then a trailing "Tutor:" line.
C19_PromptHoldsEightEarlierTurns ==
    (last.op = "turn" /\ InTrace("model_call")) =>
        last.prompt =
              <<PromptLine("System", "text", SYSTEM_INSTRUCTION)>>
                 \o TurnLines(LastN(HistoryBefore, HISTORY_WINDOW))
                 \o << PromptLine("User", "text", last.text),
                       PromptLine("Tutor", "open", "") >>

-----------------------------------------------------------------------------
(* The names that the title update and the off-topic marking assign.       *)

\* the names of the conversations of cs other than session_id
OtherNames(cs, session_id) ==
    { cs[i].name : i \in { j \in DOMAIN cs : cs[j].id # session_id } }

\* name, or name with the least number from 2 that leaves it outside taken
Resolved(name, taken) ==
    IF name \notin taken THEN name
    ELSE Numbered(name,
                  CHOOSE n \in 2..(Cardinality(taken) + 2) :
                      /\ Numbered(name, n) \notin taken
                      /\ \A m \in 2..(n - 1) : Numbered(name, m) \in taken)

\* the title that is looked up among the names: the backend's or the fallback
TitleCandidate(S, user_msgs, title_resp) ==
    LET given == IF S.client /\ title_resp.ok
                 THEN TitleFromResponse(title_resp.text) ELSE <<>>
    IN  Strip(Take(IF given # <<>> THEN given
                   ELSE _clean_title(Join(CharsOfAll(Take(user_msgs, 2)), <<" ">>)),
                   TITLE_MAX))

\* the name of session_id when mark_offtopic has retitled it, or has not
NameToMark(S, session_id, title_resp) ==
    LET c == Conv(S.convos, session_id)
        user_msgs == LastN(UserMsgs(c.history), 2)
    IN  IF /\ IsDefaultName(c.name)
           /\ user_msgs # <<>>
        THEN Resolved(TitleCandidate(S, user_msgs, title_resp), Names(S.convos))
        ELSE c.name

\* the names of S with the name of session_id replaced
NamesWith(S, session_id, name) == OtherNames(S.convos, session_id) \cup {name}

-----------------------------------------------------------------------------
(* SpecTitle: the title update of model turns, in a session whose user may *)
(* open new conversations and switch between them.  The texts and the      *)
(* backend's titles include ones longer than TITLE_MAX characters.         *)

TitleTexts == { "vpn", "authentication authorization accountability" }

\* what the title request may end in: a long title in quotes (one that starts
\* with "Chat ", as the default names do), a text that is empty once the
\* punctuation is removed, an exception
TitleAnswers(S) ==
    IF S.client
    THEN { Resp(TRUE, <<"\"","C","h","a","t"," ","A","b","o","u","t"," ","P","r","o","t","e","c","t","i","n","g"," ","A","c","c","o","u","n","t","s"," ","A","n","d"," ","P","a","s","s","w","o","r","d","s",".","\"">>),
           Resp(TRUE, <<"?","!">>),
           Resp(FALSE, <<>>) }
    ELSE {NoTitle}

TitleInit ==
    /\ \E c \in BOOLEAN : Is(NewRun(Rerun(SignIn(Start(c), "u1"))))
    /\ turns = 0
    /\ ops = 0
    /\ last = Sidebar
    /\ guard = IdleGuard

\* the chat input; `last` also keeps the title response and the conversations
\* the run started from
TitleTurn ==
    /\ logged_in
    /\ turns < MaxTitleTurns
    /\ turns' = turns + 1
    /\ UNCHANGED ops
    /\ \E user_msg \in TitleTexts : \E title_resp \in TitleAnswers(Session) :
          LET R == Rerun(ChatInput(Session, user_msg, Resp(client, "ok"), title_resp,
                                   FALSE, FALSE))
          IN  /\ Becomes(R)
              /\ last' = [ op |-> "turn", text |-> user_msg, trace |-> R.trace,
                           game_calls |-> R.game_calls, prompt |-> R.prompt,
                           pre |-> Pre, title_resp |-> title_resp, before |-> convos ]
              /\ UNCHANGED <<client, guard>>

TitleNext ==
    \/ TitleTurn
    \/ StockNew
    \/ StockSelect

SpecTitle == TitleInit /\ [][TitleNext]_vars

ActiveName == Conv(convos, active_id).name

\* the last run of the chat handler gave the active conversation a title
Titled == last.op = "turn" /\ (InTrace("title_backend") \/ InTrace("title_fallback"))

\* C21: the name the title generator assigns to a conversation is at most 40
\* characters long, for every input messages and every set of existing
\* conversation names.
C21_TitleAtMostForty ==
    Titled => Len(ActiveName) <= TITLE_MAX

\* the texts of the user in the active conversation that the title is made of
TitleMsgs == Take(UserTexts, 2)

BackendTitle == TitleFromResponse(last.title_resp.text)

BackendGave == client /\ last.title_resp.ok /\ BackendTitle # <<>>

\* C23, as the code has it: the title is the backend's whenever there is a
\* client, the call succeeds and its text is not empty once stripped and rid of
\* punctuation, from the first user turn on; it is the deterministic fallback
\* (the cleaned first two user messages) when the backend is unavailable, fails
\* or gives such an empty text.  Either is cut to 40 characters and numbered
\* when a conversation holds it.
C23_BackendTitleFromFirstTurn ==
    Titled =>
        /\ InTrace("title_backend") <=> BackendGave
        /\ InTrace("title_fallback") <=> ~BackendGave
        /\ Len(UserTexts) \in {1, 2}
        /\ ActiveName =
              Resolved(Strip(Take(IF BackendGave THEN BackendTitle
                                  ELSE _clean_title(Join(CharsOfAll(TitleMsgs), <<" ">>)),
                                  TITLE_MAX)),
                       Names(last.before))

\* C23 as stated: with fewer than 2 user turns the title is the fallback's; the
\* backend's title is used only when at least 2 user turns exist and the call
\* succeeds with a text that is not empty.
C23_BackendTitleFromSecondTurn ==
    Titled =>
        /\ Len(UserTexts) < 2 => InTrace("title_fallback")
        /\ InTrace("title_backend") =>
              Len(UserTexts) >= 2 /\ client /\ last.title_resp.ok
                 /\ last.title_resp.text # <<>>

\* the backend's title, given on the first user turn
C23_Witness ==
    /\ Titled
    /\ Len(UserTexts) = 1
    /\ InTrace("title_backend")
    /\ BackendGave

-----------------------------------------------------------------------------
(* The title update within the whole application (Spec).                   *)

\* "New Chat", "New chat" or a name that starts with "Chat "
StillDefault(name) ==
    \/ name = <<"N","e","w"," ","C","h","a","t">>
    \/ name = <<"N","e","w"," ","c","h","a","t">>
    \/ (Len(name) >= 5 /\ SubSeq(name, 1, 5) = <<"C","h","a","t"," ">>)

\* the step of a chat input
TurnStep == turns' = turns + 1

RanIn(trace, stage) == \E i \in DOMAIN trace : trace[i] = stage

TitleSetIn(trace) == RanIn(trace, "title_backend") \/ RanIn(trace, "title_fallback")

\* C22: auto-titling changes a conversation's name only while that name is
\* still a default ("New Chat", "New chat" or starting with "Chat "), and only
\* in a model turn that leaves the conversation with 1 or 2 user messages; a
\* conversation the user renamed to a non-default name is never renamed by the
\* title generator (a redirected turn only appends the off-topic suffix to it),
\* and once a non-default title is set the later turns leave it unchanged.
C22_TitleOnlyOverDefaultName ==
    [][ TurnStep =>
          LET name == Conv(convos, active_id).name
              named == Conv(convos', active_id').name
              users == Len(UserMsgs(Conv(convos', active_id').history))
              trace == last'.trace
          IN  /\ active_id' = active_id
              /\ TitleSetIn(trace) => StillDefault(name)
              /\ (TitleSetIn(trace) /\ RanIn(trace, "title")) => users \in {1, 2}
              /\ (RanIn(trace, "title") /\ named # name) =>
                    /\ TitleSetIn(trace)
                    /\ StillDefault(name)
                    /\ users \in {1, 2}
              /\ ~StillDefault(name) =>
                    \/ named = name
                    \/ /\ ~RanIn(trace, "title")
                       /\ ~EndsWith(name, OFFTOPIC_SUFFIX)
                       /\ StartsWith(named, name \o OFFTOPIC_SUFFIX)
              /\ last'.game_calls > 0 => named = name ]_vars

\* a conversation renamed "Notes" keeps its name through its first model turn
C22_Witness ==
    /\ last.op = "turn"
    /\ InTrace("title")
    /\ ~InTrace("title_backend") /\ ~InTrace("title_fallback")
    /\ Len(UserTexts) = 1
    /\ ActiveName = <<"N","o","t","e","s">>
-----------------------------------------------------------------------------
(* Persistence calls of one run of the script.                             *)

\* the runs of the chat handler that may start in this state
ChatRuns ==
    IF logged_in /\ turns < MaxTurns
    THEN UNION { { Rerun(ChatInput(Session, user_msg, in.reply, in.title_resp,
                                   in.coin_pw, in.coin_ph)) :
                   in \in TurnInputs(Session, user_msg) } :
                 user_msg \in TurnTexts }
    ELSE {}

\* the runs of the sidebar's handlers that may start in this state
SidebarRuns ==
    IF logged_in
    THEN { Rerun(NewChat(Session)), Rerun(DeleteChat(Session)),
           Rerun(SignOutClick(Session)) }
         \cup { Rerun(SaveName(Session, new_name)) : new_name \in RenameInputs }
         \cup { Rerun([Session EXCEPT !.active_id = convos[i].id]) : i \in DOMAIN convos }
    ELSE { Rerun(Session) }

\* the run R changed the set of conversations
Mutated(R) == R.convos # convos

\* a save followed the last change of R, and it was given the conversations
\* as R leaves them
SyncFollowed(R) == R.syncs >= 1 /\ R.synced = R.convos

\* R made no call of a persistence function
NoSync(R) == R.syncs = 0 /\ R.synced = <<>> /\ R.store = store

WithUserId(R) == R.logged_in /\ R.user_info # "none"

\* C24: in every run of a handler, when the user is logged in with a user
\* id a change of the set of conversations (a conversation created, a
\* message appended, a rename, a delete, a title, an off-topic marking) is
\* followed in the same run by a call of the save function, which is given
\* the conversations as the run leaves them; a run for a user who is not
\* logged in makes no persistence call at all.
C24_MutationIsSynced ==
    \A R \in ChatRuns \cup SidebarRuns :
       IF WithUserId(R)
       THEN Mutated(R) => SyncFollowed(R)
       ELSE NoSync(R)

\* a turn of a logged-in user has appended messages and the store holds the
\* active conversation as it is now, and the next turn changes it again
C24_Witness ==
    /\ logged_in
    /\ last.op = "turn"
    /\ Len(ActiveHistory) >= 2
    /\ HasDoc(store[user_info], active_id)
    /\ DecodeSession(Conv(store[user_info], active_id)) = Conv(convos, active_id)
    /\ \E R \in ChatRuns : Mutated(R) /\ R.syncs >= 2
    /\ \E R \in SidebarRuns : ~WithUserId(R) /\ Mutated(R)
-----------------------------------------------------------------------------
(* The persisted documents against the conversations in memory.            *)

\* the conversations a load of the documents returns
Loaded(docs) ==
    LET cs == load_conversations_from_firestore(docs)
    IN  { cs[i] : i \in DOMAIN cs }

\* the conversations in memory that hold a message
WithHistory(cs) == SelectSeq(cs, LAMBDA c : c.history # <<>>)

InMemory == { WithHistory(convos)[i] : i \in DOMAIN WithHistory(convos) }

\* C25: while a user is logged in, after every handler the documents of the
\* user are exactly the conversations in memory that hold a message, one
\* document each, with the same id, name and history; a conversation
\* without a message and a deleted conversation have no document; and a load
\* after a save of the conversations returns those same conversations.
C25_StoreHoldsNonEmptyConversations ==
    (logged_in /\ user_info # "none") =>
       LET docs == store[user_info]
       IN  /\ Loaded(docs) = InMemory
           /\ Cardinality(Loaded(docs)) = Len(docs)
           /\ \A i \in DOMAIN docs : HasDoc(convos, docs[i].id)
           /\ Loaded(save_conversations_to_firestore(docs, convos)) = InMemory
           /\ load_conversations_from_firestore(
                  save_conversations_to_firestore(<<>>, convos)) = WithHistory(convos)

\* a conversation with messages was deleted and the turn after it wrote the
\* only document there is, that of the conversation created in its place
C25_Witness ==
    /\ logged_in
    /\ last.op = "turn"
    /\ ops = 2
    /\ turns = 2
    /\ Len(convos) = 1
    /\ Len(store[user_info]) = 1
    /\ DecodeSession(store[user_info][1]) = convos[1]
    /\ Len(convos[1].history) >= 2
    /\ convos[1].name # DEFAULT_NAME
-----------------------------------------------------------------------------
(* SpecInvite: turns of the chat handler on texts that fire the password   *)
(* trigger alone, the phishing trigger alone and both triggers at once.    *)

InviteTexts ==
    { "Yes", "password", "Phishing", "strong password", "strong password phishing quiz" }

InviteTurn == Turn(InviteTexts, MaxInviteTurns)

InviteNext ==
    \/ Login
    \/ InviteTurn

SpecInvite == Init /\ [][InviteNext]_vars

\* the last message of the active conversation
LastMessage == ActiveHistory[Len(ActiveHistory)]

\* the last run of the chat handler fired the password trigger
InviteFired == last.op = "turn" /\ InTrace("invite")

\* C26: when the password trigger fires in a turn, the invite is the last
\* message of the active conversation at the end of the turn, and the reply
\* "yes" sent next in that conversation enters the game, also when the
\* phishing trigger fires in the same turn.
C26_InviteIsLastMessage ==
    InviteFired =>
        /\ LastMessage.kind = "invite"
        /\ IsGameEntry(Session, "Yes")

\* the last run of the chat handler reached the triggers
Triggered == last.op = "turn" /\ InTrace("triggers")

QuizFired == Triggered /\ InTrace("quiz")

\* the text of the last turn holds "phishing" and a keyword of the quiz
AsksForQuiz ==
    /\ Contains(T_phishing, LowerText)
    /\ \E k \in phishing_test_keywords : Contains(k, LowerText)

\* the counters as the triggers found them
CountedPassword == last.pre.pqc + Inc(Contains(T_password, LowerText))

CountedPhishing == last.pre.phc + Inc(Contains(T_phishing, LowerText))

\* the kinds of the messages a model turn appends, in their order
ExpectedKinds ==
    <<"text", "response">>
    \o (IF InTrace("invite") THEN <<"invite">> ELSE <<>>)
    \o (IF InTrace("quiz") THEN <<"quiz">> ELSE <<>>)

KindOf(m) == IF IsResponse(m) THEN "response" ELSE m.kind

\* C27: the phishing trigger fires on the keywords or on a count of 3 or
\* more, may fire on a count of 2 and fires on nothing else; when it fires it
\* appends the quiz message and leaves phishing_question_count at 0, the
\* in-game flag and the game step as they were and password_question_count
\* as the password trigger left it; a model turn
\* appends the user's message, the response, the invite if the password
\* trigger fired and the quiz message if the phishing trigger fired, in
\* that order.
C27_PhishingTriggerIsStateless ==
    Triggered =>
        /\ [i \in DOMAIN Appended |-> KindOf(Appended[i])] = ExpectedKinds
        /\ Appended[1] = Msg("user", "text", last.text)
        /\ (AsksForQuiz \/ CountedPhishing >= 3) => QuizFired
        /\ QuizFired => AsksForQuiz \/ CountedPhishing >= 2
        /\ QuizFired => phishing_question_count = 0
        /\ ~QuizFired => phishing_question_count = CountedPhishing
        /\ in_password_game = last.pre.in_game
        /\ password_game_step = last.pre.step
        /\ password_question_count = IF InTrace("invite") THEN 0 ELSE CountedPassword

\* both triggers fired in one turn, the phishing trigger on a count of 2
C27_Witness ==
    /\ QuizFired
    /\ InTrace("invite")
    /\ Len(Appended) = 4
    /\ Appended[4].kind = "quiz"
    /\ last.pre.phc = 2
-----------------------------------------------------------------------------
(* The redirected turn.                                                    *)

\* the messages the step appended to the active conversation
AppendedByStep ==
    LET history == Conv(convos', active_id').history
    IN  SubSeq(history, Len(Conv(convos, active_id).history) + 1, Len(history))

\* C28: a turn that the classifier denies or finds off-topic appends exactly
\* the user's message and the fixed redirect message, asks the backend for no
\* response and evaluates neither trigger; of these turns only one found
\* off-topic on an empty history changes the name of the conversation, and
\* one denied for a banned term leaves the name as it was.
C28_OnlyOfftopicFirstTurnRenames ==
    [][ (TurnStep /\ (RanIn(last'.trace, "deny") \/ RanIn(last'.trace, "offtopic"))) =>
          LET name == Conv(convos, active_id).name
              named == Conv(convos', active_id').name
              trace == last'.trace
              redirect == IF RanIn(trace, "deny") THEN "deny" ELSE "offtopic"
          IN  /\ active_id' = active_id
              /\ AppendedByStep = << Msg("user", "text", last'.text),
                                     Msg("assistant", redirect, "") >>
              /\ ~RanIn(trace, "model_call") /\ ~RanIn(trace, "no_client")
              /\ last'.prompt = <<>>
              /\ ~RanIn(trace, "triggers")
              /\ ~RanIn(trace, "invite") /\ ~RanIn(trace, "quiz")
              /\ named # name =>
                    RanIn(trace, "offtopic") /\ Conv(convos, active_id).history = <<>>
              /\ RanIn(trace, "deny") => named = name ]_vars
-----------------------------------------------------------------------------
(* The recursion of handle_password_game.                                  *)

\* the assistant messages of the last run: one per evaluation of the game
Evaluations == SelectSeq(Appended, LAMBDA m : m.role = "assistant")

\* the step whose branch wrote the message
StepOf(m) ==
    CASE m.kind = "game_start" -> 0
      [] m.kind \in {"s1_add_uppercase", "s1_has_uppercase"} -> 1
      [] m.kind \in {"s2_add_number", "s2_retry_uppercase"} -> 2
      [] m.kind \in {"s3_lost_uppercase", "s3_add_symbol", "s3_retry_number"} -> 3
      [] OTHER -> 4

\* one external call on text at step, outside any run of the script
CallAt(step, text) ==
    handle_password_game([Session EXCEPT !.password_game_step = step,
                                         !.in_password_game = TRUE],
                         text, FALSE)

\* C29: every external call of handle_password_game ends; its evaluations
\* run the branches of strictly increasing steps, the first that of the step
\* the call found, so a recursive call is made only after the step was
\* raised; the branch of step 4 is the last evaluation of its call; the step
\* stays within 0..4 and a call at step s makes at most 5 - s evaluations,
\* for every text and every step from 0 to 4.
C29_GameCallTerminates ==
    /\ password_game_step \in 0..4
    /\ GameCall =>
          /\ Len(Evaluations) = last.game_calls
          /\ StepOf(Evaluations[1]) = last.pre.step
          /\ \A i \in 1..(Len(Evaluations) - 1) :
                StepOf(Evaluations[i]) < StepOf(Evaluations[i + 1])
          /\ \A i \in DOMAIN Evaluations :
                StepOf(Evaluations[i]) = 4 => i = Len(Evaluations)
          /\ last.game_calls <= 5 - last.pre.step
    /\ turns = 0 =>
          \A step \in 0..4 : \A text \in GameTexts :
             LET R == CallAt(step, text)
             IN  /\ R.game_calls \in 1..(5 - step)
                 /\ R.password_game_step \in 0..4
                 /\ R.game_calls > 1 =>
                       R.password_game_step > step \/ ~R.in_password_game

\* a call at step 1 that ran the branches of steps 1, 3 and 4
C29_Witness ==
    /\ GameCall
    /\ last.pre.step = 1
    /\ last.game_calls = 3
    /\ [i \in DOMAIN Evaluations |-> StepOf(Evaluations[i])] = <<1, 3, 4>>
    /\ password_game_step = 0
-----------------------------------------------------------------------------
(* The step of the game from one run to the next.                          *)

\* C30: while the game is active no step of the session lowers
\* password_game_step, but for the victory, which sets it to 0 and ends the
\* game: from step 2, 3 or 4 the game stays or advances, and a text that has
\* lost its uppercase letter or its digit leaves the step where it is.
C30_StepNeverDecreases ==
    [][ in_password_game =>
          LET step == password_game_step
              next == password_game_step'
          IN  /\ \/ in_password_game' /\ next >= step /\ ~Victory'
                 \/ ~in_password_game' /\ next = 0 /\ Victory' /\ TurnStep
              /\ (TurnStep /\ step = 2 /\ ~TextHasUppercase') => next = 2
              /\ (TurnStep /\ step = 3 /\ ~TextHasUppercase') => next = 3
              /\ (TurnStep /\ step = 4 /\ (~TextHasUppercase' \/ ~TextHasDigit')) =>
                    next = 4 ]_vars

\* at step 4 the text "A!" has lost the digit and the game stays at step 4
C30_Witness ==
    /\ GameCall
    /\ last.pre.in_game
    /\ last.pre.step = 4
    /\ last.text = "A!"
    /\ password_game_step = 4
    /\ in_password_game
-----------------------------------------------------------------------------
(* The in-game flag against the step, between the runs of the script.      *)

\* C31: after every run of the script (a chat input, a switch of
\* conversation, a creation, a rename, a deletion, a sign-out, a sign-in) the
\* in-game flag is false iff password_game_step is 0 and true iff it is one
\* of 1, 2, 3, 4.
C31_FlagAgreesWithStep ==
    /\ password_game_step \in 0..4
    /\ ~in_password_game <=> password_game_step = 0
    /\ in_password_game <=> password_game_step \in 1..4

\* the user signed out in the middle of the game
C31_Witness ==
    /\ ~logged_in
    /\ in_password_game
    /\ password_game_step = 1
    /\ turns = 2
-----------------------------------------------------------------------------
(* The counters after the triggers.                                        *)

\* the last run of the chat handler ended in a redirect
Redirected == last.op = "turn" /\ (InTrace("deny") \/ InTrace("offtopic"))

\* C32: after a turn that evaluates the triggers both counters are at most
\* 2, since a trigger that finds its counter at 3 or more fires and sets it
\* to 0; a turn leaves a counter above 2, having changed it, only when the
\* turn is denied or off-topic, where the counter is raised and no trigger
\* is evaluated.
C32_CountersAtMostTwoAfterTriggers ==
    last.op = "turn" =>
        /\ Triggered =>
              /\ password_question_count <= 2
              /\ phishing_question_count <= 2
              /\ CountedPassword >= 3 => InTrace("invite") /\ password_question_count = 0
              /\ CountedPhishing >= 3 => InTrace("quiz") /\ phishing_question_count = 0
        /\ (password_question_count > 2 /\ password_question_count # last.pre.pqc) =>
              /\ Redirected
              /\ ~Triggered
              /\ password_question_count = last.pre.pqc + 1
        /\ (phishing_question_count > 2 /\ phishing_question_count # last.pre.phc) =>
              /\ Redirected
              /\ ~Triggered
              /\ phishing_question_count = last.pre.phc + 1

\* two denied turns raised the count to 2 and the question that followed
\* found it at 3 and fired the invite
C32_Witness ==
    /\ Triggered
    /\ last.pre.pqc = 2
    /\ CountedPassword = 3
    /\ InTrace("invite")
    /\ password_question_count = 0
    /\ \E i \in DOMAIN ActiveHistory : ActiveHistory[i].kind = "deny"

-----------------------------------------------------------------------------
(* SpecSession: the sidebar, the sign-out and the sign-in in the middle of *)
(* the game.  The first state is reached from Start by a sign-in, the      *)
(* message "phishing password", which raises both counters to 1 and which  *)
(* the backend answers with a text that holds the invite's phrase, and the *)
(* reply "Yes".                                                            *)

SessionTexts == { "a", "A1!" }

SessionInit ==
    /\ Is(Offered(TRUE, FALSE, TRUE))
    /\ turns = 0
    /\ ops = 0
    /\ last = Sidebar
    /\ guard = IdleGuard

SessionTurn == Turn(SessionTexts, MaxSessionTurns)

SessionNext ==
    \/ Login
    \/ SignOut
    \/ SelectConversation
    \/ New
    \/ Delete
    \/ DeleteYes
    \/ DeleteCancel
    \/ SessionTurn

SpecSession == SessionInit /\ [][SessionNext]_vars

\* the keys of the game and of the triggers
GameKeys ==
    <<in_password_game, password_game_step, user_password,
      password_question_count, phishing_question_count>>

\* the step of the Sign Out button
SignOutStep == logged_in /\ ~logged_in'

\* C33: the game and the counters belong to the session.  A run of the
\* script that is not a chat input (a switch, a creation, a deletion, a
\* sign-out, a sign-in) leaves the in-game flag, the step, the last attempt
\* and both counters as they were; the chat input that follows while the
\* flag is set goes to the game and is appended to the conversation active
\* at that time, whichever it is; and the sign-out, of the keys of the chat,
\* removes only the set of conversations and the active id, which the rerun
\* fills with one new conversation.
C33_GameBelongsToSession ==
    [][ /\ ~TurnStep => UNCHANGED GameKeys
        /\ SignOutStep =>
              /\ user_info' = "none"
              /\ Len(convos') = 1
              /\ convos'[1] = _new_session(next_uuid', DEFAULT_NAME)
              /\ convos'[1].id \notin Ids(convos)
              /\ active_id' = convos'[1].id
              /\ UNCHANGED <<renaming, confirming_delete, store, client>>
        /\ (TurnStep /\ in_password_game) =>
              /\ last'.game_calls >= 1
              /\ last'.trace \in { <<"game_dispatch">>, <<"game_entry">> }
              /\ active_id' = active_id
              /\ Ids(convos') = Ids(convos)
              /\ \A i \in DOMAIN convos :
                    IF convos[i].id = active_id
                    THEN /\ Len(convos'[i].history) >= Len(convos[i].history) + 2
                         /\ convos'[i].history[Len(convos[i].history) + 1]
                               = Msg("user", "text", last'.text)
                    ELSE convos'[i] = convos[i]
              /\ UNCHANGED phishing_question_count ]_vars

\* signed out at step 2 with both counters at 1 and signed in again, the
\* user sent "A1!" and won the game in the conversation that was loaded
C33_Witness ==
    /\ logged_in
    /\ ops = 1
    /\ next_uuid = 3
    /\ Ids(convos) = {2}
    /\ last.op = "turn"
    /\ last.pre.in_game
    /\ last.pre.step = 2
    /\ last.pre.phc = 1
    /\ last.text = "A1!"
    /\ Victory
    /\ phishing_question_count = 1
-----------------------------------------------------------------------------
(* The empty conversations of the set.                                     *)

Empties(cs) == { i \in DOMAIN cs : cs[i].history = <<>> }

IsPrefix(s, t) == Len(s) <= Len(t) /\ SubSeq(t, 1, Len(s)) = s

\* the conversations of cs2 that are not in cs1 and hold no message
Created(cs1, cs2) ==
    { i \in DOMAIN cs2 : cs2[i].id \notin Ids(cs1) /\ cs2[i].history = <<>> }

\* C34: the set never holds more than one conversation with an empty
\* history.  A run creates a conversation only next to conversations that
\* all hold messages (New when find_empty_chat finds none) or as the only
\* conversation of a set that was empty (after the last one was deleted,
\* after Sign Out, at a sign-in that loads nothing); and the history of a
\* conversation that stays in the set only grows: what it held is a prefix
\* of what it holds.
C34_AtMostOneEmptyConversation ==
    /\ Cardinality(Empties(convos)) <= 1
    /\ [][ /\ Cardinality(Empties(convos')) <= 1
           /\ Cardinality(Created(convos, convos')) <= 1
           /\ \A i \in Created(convos, convos') :
                 \/ /\ Empties(convos) = {}
                    /\ convos' = Append(convos, convos'[i])
                 \/ convos' = << convos'[i] >>
           /\ \A i \in DOMAIN convos : \A j \in DOMAIN convos' :
                 (convos[i].id = convos'[j].id /\ logged_in /\ logged_in') =>
                    IsPrefix(convos[i].history, convos'[j].history) ]_vars

\* a conversation with messages and, created by New, one without
C34_Witness ==
    /\ logged_in
    /\ Len(convos) = 2
    /\ convos[1].history # <<>>
    /\ convos[2].history = <<>>
    /\ active_id = convos[2].id
    /\ ops = 2
    /\ find_empty_chat(convos) = convos[2].id
====
